---- MODULE Spec2Model ----
(***************************************************************************)
(* Plan verification and repair engine of BDI_LLM_Formal_Ver.              *)
(*                                                                         *)
(*   SpecGraph  : PlanVerifier, PlanRepairer and repair_and_verify applied *)
(*                to bounded BDIPlan values.                               *)
(*   SpecVerify : PlanVerifier.verify on plans of up to three edges.       *)
(*   SpecCanon  : PlanCanonicalizer.canonicalize, applied twice.           *)
(*   SpecBlocks : BlocksworldPhysicsValidator.validate_plan.               *)
(*   SpecVal    : PDDLSymbolicVerifier.verify_plan.                        *)
(*   SpecRepair : PlanRepairer.repair on plans over three action ids.      *)
(*   SpecOrch   : generate_bdi_plan.                                       *)
(*   SpecBatch  : run_batch_evaluation, serial and with worker threads.    *)
(***************************************************************************)
EXTENDS Integers, Sequences, FiniteSets, TLC

(***************************************************************************)
(* Bounds of the explored plans.                                           *)
(***************************************************************************)
MaxNodes == 3
MaxEdges == 2

\* PlanRepairer.VIRTUAL_START / VIRTUAL_END
VIRTUAL_START == "__START__"
VIRTUAL_END == "__END__"

\* Node ids a generated plan may use: ordinary ids and a reserved anchor id.
Ids == {"a", "b", VIRTUAL_START}

SeqsUpTo(S, n) == UNION {[1..k -> S] : k \in 0..n}

\* schemas.BDIPlan: an ordered node list (ids) and an ordered edge list
\* (source, target).  Nothing validates ids or edge endpoints.
BDIPlan == [nodes : SeqsUpTo(Ids, MaxNodes), edges : SeqsUpTo(Ids \X Ids, MaxEdges)]

(***************************************************************************)
(* Sequence helpers.                                                       *)
(***************************************************************************)
Range(s) == {s[i] : i \in 1..Len(s)}

AppendNew(s, x) == IF x \in Range(s) THEN s ELSE Append(s, x)

IndexOf(s, x) == CHOOSE i \in 1..Len(s) : s[i] = x /\ \A j \in 1..(i-1) : s[j] # x

LastIndexOf(s, x) == CHOOSE i \in 1..Len(s) : s[i] = x /\ \A j \in (i+1)..Len(s) : s[j] # x

RECURSIVE SetToSeq(_)
SetToSeq(S) == IF S = {} THEN <<>> ELSE LET x == CHOOSE y \in S : TRUE IN <<x>> \o SetToSeq(S \ {x})

\* All enumerations of a finite set (the orders a Python set may iterate in).
Orders(S) == {f \in [1..Cardinality(S) -> S] : \A i, j \in 1..Cardinality(S) : f[i] = f[j] => i = j}

(***************************************************************************)
(* networkx.DiGraph as built by BDIPlan.to_networkx: nodes in insertion    *)
(* order, edges (adjacency) in insertion order, both without repetition.   *)
(***************************************************************************)
RECURSIVE AddNodes(_, _, _)
AddNodes(acc, ns, i) ==
    IF i > Len(ns) THEN acc ELSE AddNodes(AppendNew(acc, ns[i]), ns, i + 1)

RECURSIVE AddEdges(_, _, _)
AddEdges(G, es, i) ==
    IF i > Len(es) THEN G
    ELSE AddEdges([nodes |-> AppendNew(AppendNew(G.nodes, es[i][1]), es[i][2]),
                   edges |-> AppendNew(G.edges, es[i])], es, i + 1)

to_networkx(p) == AddEdges([nodes |-> AddNodes(<<>>, p.nodes, 1), edges |-> <<>>], p.edges, 1)

EdgeSet(G) == Range(G.edges)
NodeSet(G) == Range(G.nodes)

RECURSIVE Targets(_, _, _)
Targets(es, n, i) ==
    IF i > Len(es) THEN <<>>
    ELSE (IF es[i][1] = n THEN <<es[i][2]>> ELSE <<>>) \o Targets(es, n, i + 1)

\* G.successors(n) / G.neighbors(n), in adjacency order
Successors(G, n) == Targets(G.edges, n, 1)
Predecessors(G, n) == {e[1] : e \in {x \in EdgeSet(G) : x[2] = n}}
SuccessorSet(G, n) == {e[2] : e \in {x \in EdgeSet(G) : x[1] = n}}
InDegree(G, n) == Cardinality(Predecessors(G, n))
OutDegree(G, n) == Cardinality(SuccessorSet(G, n))

\* nx.selfloop_edges + G.remove_edges_from
RemoveSelfLoops(G) == [nodes |-> G.nodes, edges |-> SelectSeq(G.edges, LAMBDA e : e[1] # e[2])]

\* the weakly connected component of node v (plain BFS over both directions)
RECURSIVE Component(_, _)
Component(G, seen) ==
    LET next == seen \cup {e[2] : e \in {x \in EdgeSet(G) : x[1] \in seen}}
                     \cup {e[1] : e \in {x \in EdgeSet(G) : x[2] \in seen}}
    IN IF next = seen THEN seen ELSE Component(G, next)

\* nx.weakly_connected_components: one set per component, in the order of
\* each component's first node in G
RECURSIVE Components(_, _, _)
Components(G, i, seen) ==
    IF i > Len(G.nodes) THEN <<>>
    ELSE IF G.nodes[i] \in seen THEN Components(G, i + 1, seen)
    ELSE LET c == Component(G, {G.nodes[i]})
         IN <<c>> \o Components(G, i + 1, seen \cup c)

weakly_connected_components(G) == Components(G, 1, {})

\* nx.is_weakly_connected on a graph with at least one node
is_weakly_connected(G) == Component(G, {G.nodes[1]}) = NodeSet(G)

(***************************************************************************)
(* nx.topological_sort: Kahn's algorithm by generations.  Generations are  *)
(* emitted in order and each is filled in discovery order, so the output   *)
(* is the order of one FIFO work list.                                     *)
(***************************************************************************)
RECURSIVE Relax(_, _, _, _)
Relax(indeg, queue, succ, i) ==
    IF i > Len(succ) THEN [indeg |-> indeg, queue |-> queue]
    ELSE LET c == succ[i]
             d == indeg[c] - 1
         IN Relax([indeg EXCEPT ![c] = d], IF d = 0 THEN Append(queue, c) ELSE queue, succ, i + 1)

RECURSIVE Kahn(_, _, _, _)
Kahn(G, indeg, queue, pos) ==
    IF pos > Len(queue) THEN [order |-> queue, feasible |-> \A n \in NodeSet(G) : indeg[n] = 0]
    ELSE LET r == Relax(indeg, queue, Successors(G, queue[pos]), 1)
         IN Kahn(G, r.indeg, r.queue, pos + 1)

nx_topological_sort(G) ==
    Kahn(G, [n \in NodeSet(G) |-> InDegree(G, n)],
         SelectSeq(G.nodes, LAMBDA n : InDegree(G, n) = 0), 1)

\* the nodes sorted before the cycle was met, NetworkXUnfeasible ignored
topological_sort_partial(G) == nx_topological_sort(G).order

\* PlanVerifier.topological_sort: the order, or [] on NetworkXUnfeasible
topological_sort(G) ==
    IF nx_topological_sort(G).feasible THEN nx_topological_sort(G).order ELSE <<>>

(***************************************************************************)
(* nx.simple_cycles: every elementary circuit once (self-loops included).  *)
(* A circuit is written from its member that comes first in G.             *)
(***************************************************************************)
RECURSIVE CyclesFrom(_, _, _)
CyclesFrom(G, start, path) ==
    LET last == path[Len(path)]
        closes == IF <<last, path[1]>> \in EdgeSet(G) THEN {path} ELSE {}
        ext == {n \in SuccessorSet(G, last) :
                   /\ n \notin Range(path)
                   /\ IndexOf(G.nodes, n) > start}
    IN closes \cup UNION {CyclesFrom(G, start, Append(path, n)) : n \in ext}

simple_cycles(G) == UNION {CyclesFrom(G, i, <<G.nodes[i]>>) : i \in 1..Len(G.nodes)}

(***************************************************************************)
(* PlanVerifier.verify                                                     *)
(***************************************************************************)
EmptyError == [kind |-> "empty", members |-> <<>>]
DisconnectedError == [kind |-> "disconnected", members |-> <<>>]
CycleError(c) == [kind |-> "cycle", members |-> c]
RepairFailedError == [kind |-> "repair_failed", members |-> <<>>]

RECURSIVE CycleErrors(_, _)
CycleErrors(cs, i) == IF i > Len(cs) THEN <<>> ELSE <<CycleError(cs[i])>> \o CycleErrors(cs, i + 1)

\* is_valid = len(errors) == 0; `checks` records which of the three checks ran
Verdict(errs, checks) == [is_valid |-> Len(errs) = 0, errors |-> errs, checks |-> checks]

\* the cycle check skipped once the graph is found disconnected
graph_errors_short_circuit(G) ==
    IF is_weakly_connected(G) THEN CycleErrors(SetToSeq(simple_cycles(G)), 1)
    ELSE <<DisconnectedError>>

\* the connectivity check and the cycle check
graph_errors(G) ==
    (IF is_weakly_connected(G) THEN <<>> ELSE <<DisconnectedError>>)
    \o CycleErrors(SetToSeq(simple_cycles(G)), 1)

\* verify without the check for an empty graph
verify_no_empty_check(G) ==
    Verdict(IF Len(G.nodes) = 0 THEN <<>> ELSE graph_errors(G), {"empty", "connectivity", "cycles"})

verify(G) ==
    IF Len(G.nodes) = 0
    THEN [is_valid |-> FALSE, errors |-> <<EmptyError>>, checks |-> {"empty"}]
    ELSE Verdict(graph_errors(G), {"empty", "connectivity", "cycles"})

(***************************************************************************)
(* PlanRepairer                                                            *)
(***************************************************************************)
\* One enumeration per component: `for node_id in component` walks a Python
\* set of strings, whose order is not fixed by the program.
RECURSIVE IterChoices(_, _)
IterChoices(comps, i) ==
    IF i > Len(comps) THEN {<<>>}
    ELSE {<<o>> \o rest : o \in Orders(comps[i]), rest \in IterChoices(comps, i + 1)}

RECURSIVE EdgesFrom(_, _, _)
EdgesFrom(src, targets, i) ==
    IF i > Len(targets) THEN <<>> ELSE <<(<<src, targets[i]>>)>> \o EdgesFrom(src, targets, i + 1)

RECURSIVE EdgesTo(_, _, _)
EdgesTo(sources, tgt, i) ==
    IF i > Len(sources) THEN <<>> ELSE <<(<<sources[i], tgt>>)>> \o EdgesTo(sources, tgt, i + 1)

roots_in_component(G, component, ord) ==
    SelectSeq(ord, LAMBDA n : Predecessors(G, n) \cap component = {})

terminals_in_component(G, component, ord) ==
    SelectSeq(ord, LAMBDA n : SuccessorSet(G, n) \cap component = {})

RECURSIVE ConnectEdges(_, _, _, _)
ConnectEdges(G, comps, iter, i) ==
    IF i > Len(comps) THEN <<>>
    ELSE EdgesFrom(VIRTUAL_START, roots_in_component(G, comps[i], iter[i]), 1)
         \o EdgesTo(terminals_in_component(G, comps[i], iter[i]), VIRTUAL_END, 1)
         \o ConnectEdges(G, comps, iter, i + 1)

\* the anchors are put in front of the nodes of the plan
connect_subgraphs_anchors_first(p, G, iter) ==
    LET components == weakly_connected_components(G)
    IN IF Len(components) <= 1 THEN p
       ELSE [nodes |-> <<VIRTUAL_START, VIRTUAL_END>> \o p.nodes,
             edges |-> p.edges \o ConnectEdges(G, components, iter, 1)]

connect_subgraphs(p, G, iter) ==
    LET components == weakly_connected_components(G)
    IN IF Len(components) <= 1 THEN p
       ELSE [nodes |-> p.nodes \o <<VIRTUAL_START, VIRTUAL_END>>,
             edges |-> p.edges \o ConnectEdges(G, components, iter, 1)]

find_roots(G) == SelectSeq(G.nodes, LAMBDA n : InDegree(G, n) = 0)
find_terminals(G) == SelectSeq(G.nodes, LAMBDA n : OutDegree(G, n) = 0)

unify_roots(p, roots) ==
    [nodes |-> Append(p.nodes, VIRTUAL_START),
     edges |-> p.edges \o EdgesFrom(VIRTUAL_START, SelectSeq(roots, LAMBDA r : r # VIRTUAL_START), 1)]

unify_terminals(p, terminals) ==
    [nodes |-> Append(p.nodes, VIRTUAL_END),
     edges |-> p.edges \o EdgesTo(SelectSeq(terminals, LAMBDA t : t # VIRTUAL_END), VIRTUAL_END, 1)]

Repair(kind, n) == [kind |-> kind, count |-> n]

\* RepairResult; repaired_plan is <<>> for None and <<p>> for a plan
RepairResult(success, repaired, original_valid, repairs, errors) ==
    [success |-> success, repaired_plan |-> repaired, original_valid |-> original_valid,
     repairs_applied |-> repairs, errors |-> errors]

\* the plan repair works on, with the repairs made so far
RepairState(p, repairs) == [plan |-> p, repairs |-> repairs]

\* 1. Fix disconnected subgraphs
connect_step(p, G, iter) ==
    IF is_weakly_connected(G) THEN RepairState(p, <<>>)
    ELSE RepairState(connect_subgraphs(p, G, iter), <<Repair("connect", 0)>>)

\* 2. Ensure single root
roots_step(s, roots) ==
    IF Len(roots) > 1
    THEN RepairState(unify_roots(s.plan, roots), Append(s.repairs, Repair("roots", Len(roots))))
    ELSE s

\* 3. Ensure single terminal
terminals_step(s, terminals) ==
    IF Len(terminals) > 1
    THEN RepairState(unify_terminals(s.plan, terminals),
                     Append(s.repairs, Repair("terminals", Len(terminals))))
    ELSE s

find_and_unify_roots(s) == roots_step(s, find_roots(to_networkx(s.plan)))

find_and_unify_terminals(s) == terminals_step(s, find_terminals(to_networkx(s.plan)))

\* the plan handed to step 4 of repair, with the repairs made on the way
repair_steps(p, G, iter) ==
    find_and_unify_terminals(find_and_unify_roots(connect_step(p, G, iter)))

\* 4. Re-verify: the result of repair for the verdict v on the plan of s
reverified(s, v) ==
    RepairResult(v.is_valid, IF v.is_valid THEN <<s.plan>> ELSE <<>>, FALSE,
                 s.repairs, IF v.is_valid THEN <<>> ELSE v.errors)

reverify(s) == reverified(s, verify(to_networkx(s.plan)))

\* the try block of repair; nx.is_weakly_connected raises on the null
\* graph: the except branch
attempt_repairs(p, G, iter) ==
    IF Len(G.nodes) = 0
    THEN RepairResult(FALSE, <<>>, FALSE, <<>>, <<RepairFailedError>>)
    ELSE reverify(repair_steps(p, G, iter))

\* repair without the fast path for a plan that is already valid
repair_no_fast_path(p, iter) == attempt_repairs(p, to_networkx(p), iter)

repair(p, iter) ==
    IF verify(to_networkx(p)).is_valid
    THEN RepairResult(TRUE, <<p>>, TRUE, <<>>, <<>>)
    ELSE attempt_repairs(p, to_networkx(p), iter)

\* the set-iteration orders repair may meet on plan p
RepairIters(p) == IterChoices(weakly_connected_components(to_networkx(p)), 1)

(***************************************************************************)
(* PlanCanonicalizer                                                       *)
(***************************************************************************)
ActionId(i) == "action_" \o ToString(i)

RECURSIVE CanonNodes(_, _, _, _)
CanonNodes(topo_order, node_ids, id_mapping, i) ==
    IF i > Len(topo_order) THEN <<>>
    ELSE (IF topo_order[i] \in node_ids THEN <<id_mapping[topo_order[i]]>> ELSE <<>>)
         \o CanonNodes(topo_order, node_ids, id_mapping, i + 1)

RECURSIVE CanonEdges(_, _, _, _)
CanonEdges(es, id_mapping, acc, i) ==
    IF i > Len(es) THEN acc
    ELSE IF es[i][1] \in DOMAIN id_mapping /\ es[i][2] \in DOMAIN id_mapping
         THEN LET k == <<id_mapping[es[i][1]], id_mapping[es[i][2]]>>
              IN CanonEdges(es, id_mapping,
                            IF k \notin Range(acc) /\ k[1] # k[2] THEN Append(acc, k) ELSE acc, i + 1)
         ELSE CanonEdges(es, id_mapping, acc, i + 1)

\* topo_order: the topological order, or the node list on NetworkXUnfeasible
order_or_nodes(t, p) == IF t.feasible THEN t.order ELSE p.nodes

\* the order canonicalize numbers the nodes by
canonical_order(p) ==
    order_or_nodes(nx_topological_sort(RemoveSelfLoops(to_networkx(p))), p)

\* id_mapping = {old_id: f"action_{i+1}" for i, old_id in enumerate(topo_order)}
id_mapping_of(topo_order) ==
    [old \in Range(topo_order) |-> ActionId(LastIndexOf(topo_order, old))]

renamed(p, topo_order, id_mapping) ==
    [nodes |-> CanonNodes(topo_order, Range(p.nodes), id_mapping, 1),
     edges |-> CanonEdges(p.edges, id_mapping, <<>>, 1)]

canonicalize_along(p, topo_order) == renamed(p, topo_order, id_mapping_of(topo_order))

canonicalize(p) == canonicalize_along(p, canonical_order(p))

\* the triple repair_and_verify returns for the result r of repair
canonical_or_original(p, r) ==
    IF r.success
    THEN [plan |-> canonicalize(r.repaired_plan[1]), is_valid |-> TRUE, messages |-> r.repairs_applied]
    ELSE [plan |-> p, is_valid |-> FALSE, messages |-> r.errors]

\* a failed repair hands back the plan the repair steps left
repair_and_verify_partial(p, iter) ==
    IF repair(p, iter).success \/ Len(p.nodes) = 0
    THEN canonical_or_original(p, repair(p, iter))
    ELSE [plan |-> repair_steps(p, to_networkx(p), iter).plan, is_valid |-> FALSE,
          messages |-> repair(p, iter).errors]

repair_and_verify(p, iter) == canonical_or_original(p, repair(p, iter))

(***************************************************************************)
(* BlocksworldPhysicsValidator                                             *)
(*                                                                         *)
(* An action string is kept as the words that lower(), the replacement of  *)
(* parentheses by blanks and split() leave of it.                          *)
(***************************************************************************)
Blocks == {"a", "b"}

NoBlock == "None"

\* the action strings of the explored plans
ActionStrings ==
    {<<n>> : n \in {"pick-up", "put-down"}}
    \cup {<<n, x>> : n \in {"pick-up", "put-down", "stack", "unstack"}, x \in Blocks}
    \cup {<<n, x, y>> : n \in {"stack", "unstack"}, x \in Blocks, y \in Blocks}

\* `kw in word` for the words of the explored action strings
Occurs(kw, word) == kw = word \/ (kw = "stack" /\ word = "unstack")

\* `kw in action_lower`
Contains(action, kw) == \E i \in 1..Len(action) : Occurs(kw, action[i])

Keywords == {"stack", "unstack", "pick-up", "pickup", "put-down", "putdown"}

\* _extract_block: parts[1], else the first word the regular expression finds
extract_block(action) ==
    IF Len(action) > 1 THEN action[2]
    ELSE IF Len(action) = 1 THEN action[1]
    ELSE NoBlock

\* _extract_two_blocks: parts[1:3], else the first two non-keyword words
extract_two_blocks(action) ==
    IF Len(action) > 2 THEN SubSeq(action, 2, 3)
    ELSE LET filtered_blocks == SelectSeq(action, LAMBDA w : w \notin Keywords)
         IN IF Len(filtered_blocks) >= 2 THEN SubSeq(filtered_blocks, 1, 2) ELSE <<>>

Diag(step, kind) == [step |-> step, kind |-> kind]

\* the same, tagged with the 0-based loop index
IfDiagZeroBased(cond, step, kind) == IF cond THEN <<Diag(step - 1, kind)>> ELSE <<>>

\* if <violated>: errors.append(f"Step {step_num}: ...")
IfDiag(cond, step, kind) == IF cond THEN <<Diag(step, kind)>> ELSE <<>>

\* the state dictionary validate_plan builds from init_state
WorldState(on_table, on, clear, holding) ==
    [on_table |-> on_table, on |-> on, clear |-> clear, holding |-> holding]

\* a loop body that knows pick-up only and does not look at the hand
validate_action_hand_unchecked(st, action, step_num) ==
    IF Len(action) > 1 /\ action[1] = "pick-up"
    THEN [errors |-> IfDiag(action[2] \notin st.clear, step_num, "pick-up: block not clear")
                     \o IfDiag(action[2] \notin st.on_table, step_num, "pick-up: not on table"),
          state |-> [st EXCEPT !.on_table = @ \ {action[2]}, !.clear = @ \ {action[2]},
                               !.holding = action[2]]]
    ELSE [errors |-> <<>>, state |-> st]

\* one iteration of the loop of validate_plan: the diagnostics it appends
\* and the state it leaves
validate_action(st, action, step_num) ==
    IF Contains(action, "pick-up") \/ Contains(action, "pickup")
    THEN LET block == extract_block(action)
         IN IF block = NoBlock
            THEN [errors |-> <<Diag(step_num, "parse")>>, state |-> st]
            ELSE [errors |-> IfDiag(block \notin st.clear, step_num, "pick-up: block not clear")
                             \o IfDiag(st.holding # NoBlock, step_num, "pick-up: hand already holding")
                             \o IfDiag(block \notin st.on_table, step_num, "pick-up: not on table"),
                  state |-> [st EXCEPT !.on_table = @ \ {block}, !.clear = @ \ {block},
                                       !.holding = block]]
    ELSE IF Contains(action, "put-down") \/ Contains(action, "putdown")
    THEN LET block == extract_block(action)
         IN IF block = NoBlock
            THEN [errors |-> <<Diag(step_num, "parse")>>, state |-> st]
            ELSE [errors |-> IfDiag(st.holding # block, step_num, "put-down: not holding it"),
                  state |-> [st EXCEPT !.on_table = @ \cup {block}, !.clear = @ \cup {block},
                                       !.holding = NoBlock]]
    ELSE IF Contains(action, "stack")
    THEN LET blocks == extract_two_blocks(action)
         IN IF Len(blocks) < 2
            THEN [errors |-> <<Diag(step_num, "parse")>>, state |-> st]
            ELSE [errors |-> IfDiag(st.holding # blocks[1], step_num, "stack: not holding it")
                             \o IfDiag(blocks[2] \notin st.clear, step_num, "stack: target not clear"),
                  state |-> [st EXCEPT !.on = @ \cup {<<blocks[1], blocks[2]>>},
                                       !.clear = (@ \cup {blocks[1]}) \ {blocks[2]},
                                       !.holding = NoBlock]]
    ELSE IF Contains(action, "unstack")
    THEN LET blocks == extract_two_blocks(action)
         IN IF Len(blocks) < 2
            THEN [errors |-> <<Diag(step_num, "parse")>>, state |-> st]
            ELSE [errors |-> IfDiag(blocks[1] \notin st.clear, step_num, "unstack: not clear")
                             \o IfDiag(st.holding # NoBlock, step_num, "unstack: hand not empty"),
                  state |-> [st EXCEPT !.on = @ \ {<<blocks[1], blocks[2]>>},
                                       !.clear = (@ \cup {blocks[2]}) \ {blocks[1]},
                                       !.holding = blocks[1]]]
    ELSE [errors |-> <<>>, state |-> st]

\* Blocksworld states in which every block is exactly one of on the table,
\* on one other block, or held, and a block is clear iff it is not held and
\* carries nothing.
ConsistentState(st) ==
    /\ st.holding \in Blocks \cup {NoBlock}
    /\ \A e \in st.on : e[1] # e[2] /\ <<e[2], e[1]>> \notin st.on
    /\ \A x \in Blocks :
          /\ Cardinality({y \in Blocks : <<x, y>> \in st.on}) <= 1
          /\ Cardinality({y \in Blocks : <<y, x>> \in st.on}) <= 1
          /\ Cardinality({k \in {"table", "on", "held"} :
                            \/ k = "table" /\ x \in st.on_table
                            \/ k = "on" /\ \E y \in Blocks : <<x, y>> \in st.on
                            \/ k = "held" /\ st.holding = x}) = 1
          /\ x \in st.clear <=> (st.holding # x /\ ~\E y \in Blocks : <<y, x>> \in st.on)

InitStates ==
    {st \in [on_table : SUBSET Blocks, on : SUBSET (Blocks \X Blocks), clear : SUBSET Blocks,
             holding : Blocks \cup {NoBlock}] : ConsistentState(st)}

(***************************************************************************)
(* PDDLSymbolicVerifier                                                    *)
(*                                                                         *)
(* The validator's output is kept as the set of texts the adapter looks    *)
(* for that occur in it.                                                   *)
(***************************************************************************)
MaxValActions == 2
MaxOutputTexts == 2

SuccessText == "Plan executed successfully"

OutputTexts ==
    {SuccessText, "Goal not satisfied", "Plan invalid", "Plan failed", "Bad plan",
     "Error in type-checking", "Bad problem file",
     "Plan failed because of unsatisfied precondition in:", "Plan Repair Advice:",
     "Precondition not satisfied:", "Invalid action:", "Type error:"}

\* `text in output`: a text occurs when it, or a text it is part of, is there
In(text, output) ==
    \/ text \in output
    \/ text = "Plan failed" /\ "Plan failed because of unsatisfied precondition in:" \in output

ValOutputs == {o \in SUBSET OutputTexts : Cardinality(o) <= MaxOutputTexts}

\* PDDL action strings handed to verify_plan: text, and whether it already
\* starts with a parenthesis
PddlActionStrings == {[text |-> "pick-up a", paren |-> TRUE], [text |-> "stack a b", paren |-> FALSE]}

\* the line _create_plan_file writes for an action
plan_file_line(action) == [text |-> action.text, paren |-> TRUE]

\* _extract_val_errors
extract_val_errors(output) ==
    LET errors ==
            (IF "Plan failed because of unsatisfied precondition in:" \in output
                THEN <<"Unsatisfied precondition in action">> ELSE <<>>)
            \o (IF "Plan Repair Advice:" \in output THEN <<"VAL Repair Advice">> ELSE <<>>)
            \o (IF In("Goal not satisfied", output) THEN <<"Plan executed but goal not satisfied">> ELSE <<>>)
            \o (IF "Precondition not satisfied:" \in output THEN <<"Precondition violation">> ELSE <<>>)
            \o (IF In("Error in type-checking", output) THEN <<"Type-checking error">> ELSE <<>>)
            \o (IF "Invalid action:" \in output THEN <<"Invalid action">> ELSE <<>>)
            \o (IF "Type error:" \in output THEN <<"Type error">> ELSE <<>>)
    IN IF errors # <<>> THEN errors
       ELSE IF In("Plan failed", output) \/ In("Error in type-checking", output)
            THEN <<"first line with error or fail">>
       ELSE <<"Plan validation failed (reason unclear)">>

FullOutput == "Full VAL output"

\* _parse_val_output
parse_val_output(output, verbose) ==
    IF In(SuccessText, output) /\ ~In("Goal not satisfied", output) /\ ~In("Plan invalid", output)
    THEN [is_valid |-> TRUE, errors |-> <<>>]
    ELSE IF \/ In("Goal not satisfied", output) \/ In("Plan invalid", output)
            \/ In("Plan failed", output) \/ In("Bad plan", output)
            \/ In("Error in type-checking", output) \/ In("Bad problem file", output)
    THEN [is_valid |-> FALSE,
          errors |-> extract_val_errors(output) \o (IF verbose THEN <<FullOutput>> ELSE <<>>)]
    ELSE [is_valid |-> FALSE,
          errors |-> IF verbose THEN <<"VAL output unclear">>
                     ELSE <<"VAL validation result unclear (enable verbose for details)">>]

\* what subprocess.run does: it returns the output, or raises
RunOutcomes ==
    {[kind |-> "output", output |-> o] : o \in ValOutputs}
    \cup {[kind |-> k, output |-> {}] :
            k \in {"TimeoutExpired", "FileNotFoundError", "OSError8", "OSError", "Exception"}}

\* every exception of subprocess.run reported by one generic message
verdict_of_generic(outcome, verbose) ==
    IF outcome.kind = "output" THEN parse_val_output(outcome.output, verbose)
    ELSE [is_valid |-> FALSE, errors |-> <<"VAL execution error">>]

\* the return value of verify_plan for an outcome of subprocess.run
verdict_of(outcome, verbose) ==
    CASE outcome.kind = "output" -> parse_val_output(outcome.output, verbose)
      [] outcome.kind = "TimeoutExpired" ->
            [is_valid |-> FALSE, errors |-> <<"VAL validation timeout (>30s)">>]
      [] outcome.kind = "FileNotFoundError" ->
            [is_valid |-> FALSE, errors |-> <<"VAL executable not found">>]
      [] outcome.kind = "OSError8" ->
            [is_valid |-> FALSE, errors |-> <<"VAL executable incompatible with current OS (Exec format error)">>]
      [] outcome.kind = "OSError" ->
            [is_valid |-> FALSE, errors |-> <<"VAL execution error (OSError)">>]
      [] OTHER -> [is_valid |-> FALSE, errors |-> <<"VAL execution error">>]

\* no early return
rejects_never(plan_actions) == FALSE

\* `if not plan_actions`: the early return of verify_plan
rejects_at_once(plan_actions) == Len(plan_actions) = 0

EmptyPlanVerdict == [is_valid |-> FALSE, errors |-> <<"Empty plan - no actions to verify">>]

(***************************************************************************)
(* generate_bdi_plan (scripts/run_planbench_full.py)                       *)
(***************************************************************************)
MaxRetries == 3

\* max_val_repairs
max_val_repairs == 3

\* plans the generation collaborator and the corrective collaborator return
CandidatePlans ==
    {[nodes |-> <<"a">>, edges |-> <<>>],
     [nodes |-> <<"a", "b">>, edges |-> <<(<<"a", "b">>)>>],
     [nodes |-> <<"a", "b">>, edges |-> <<>>],
     [nodes |-> <<"a", "b">>, edges |-> <<(<<"a", "b">>), (<<"b", "a">>)>>]}

\* messages of the exceptions a step may raise
ErrorMessages == {"Connection reset by peer", "1 validation error for BDIPlan"}

\* every failure taken for a transient one
retries_every_failure(message) == TRUE

\* the retryable test of the handler: a keyword occurs in str(e).lower()
is_retryable(message) == message = "Connection reset by peer"

\* wait_time = 2 ** (attempt + 1)
wait_time(attempt) == 2 ^ (attempt + 1)

\* the PDDL action string of the node with the given id
RECURSIVE pddl_action_strings(_, _)
pddl_action_strings(ids, i) ==
    IF i > Len(ids) THEN <<>>
    ELSE <<"(" \o ids[i] \o ")">> \o pddl_action_strings(ids, i + 1)

\* the ids in execution order that are no anchors and name a listed node
action_ids(ordered, p) ==
    SelectSeq(ordered, LAMBDA n : n \notin {VIRTUAL_START, VIRTUAL_END} /\ n \in Range(p.nodes))

\* bdi_to_pddl_actions: one PDDL action per listed node that is no anchor, in
\* topological order (in list order when the graph has a cycle)
bdi_to_pddl_actions(p) ==
    pddl_action_strings(action_ids(order_or_nodes(nx_topological_sort(to_networkx(p)), p), p), 1)

\* BDIPlanner.repair_from_val_errors on the plan the model returned: the
\* plan it hands back (<<>> when it raises ValueError)
\* the plan of a successful auto-repair; ValueError otherwise
repaired_or_raise(r) == IF r.is_valid THEN <<r.plan>> ELSE <<>>

\* the plan of the model is handed back without the structural check
repair_from_val_errors_unchecked(raw, auto_repair, iter) == <<raw>>

repair_from_val_errors(raw, auto_repair, iter) ==
    IF verify(to_networkx(raw)).is_valid THEN <<raw>>
    ELSE IF auto_repair THEN repaired_or_raise(repair_and_verify(raw, iter))
    ELSE <<>>

\* the loop goes on until the budget is used up, whatever the verdict
loop_ignores_verdict(symbolic_valid, val_repair_attempt) == val_repair_attempt < max_val_repairs

\* one attempt more than the budget
loop_exceeds_budget(symbolic_valid, val_repair_attempt) ==
    ~symbolic_valid /\ val_repair_attempt <= max_val_repairs

\* while not symbolic_valid and val_repair_attempt < max_val_repairs
loop_continues(symbolic_valid, val_repair_attempt) ==
    ~symbolic_valid /\ val_repair_attempt < max_val_repairs

\* the errors of symbolic_errors that the repair loop keeps (clean_errors)
clean_errors(symbolic_errors) == SelectSeq(symbolic_errors, LAMBDA e : e # FullOutput)

\* the history keeps the latest failed attempt only
record_latest_attempt(history, attempt, plan_actions, val_errors) ==
    <<[attempt |-> attempt, plan_actions |-> plan_actions, val_errors |-> val_errors]>>

\* cumulative_repair_history.append({...})
record_attempt(history, attempt, plan_actions, val_errors) ==
    Append(history, [attempt |-> attempt, plan_actions |-> plan_actions, val_errors |-> val_errors])

FirstN(s, n) == SubSeq(s, 1, IF Len(s) < n THEN Len(s) ELSE n)

\* verdicts verify_plan may hand to the repair loop (verbose = True)
ValVerdicts ==
    {[is_valid |-> TRUE, errors |-> <<>>],
     [is_valid |-> FALSE, errors |-> <<"Plan executed but goal not satisfied", FullOutput>>]}

\* verdicts BlocksworldPhysicsValidator.validate_plan may return
PhysicsVerdicts ==
    {[is_valid |-> TRUE, errors |-> <<>>],
     [is_valid |-> FALSE, errors |-> <<Diag(1, "pick-up: block not clear")>>]}

InitialMetrics ==
    [structural |-> [valid |-> FALSE, errors |-> <<>>],
     symbolic |-> [valid |-> FALSE, errors |-> <<>>],
     physics |-> [valid |-> FALSE, errors |-> <<>>],
     auto_repair |-> [triggered |-> FALSE, success |-> FALSE],
     val_repair |-> [attempts |-> 0, success |-> FALSE, history |-> <<>>],
     overall_valid |-> FALSE, num_nodes |-> 0, num_edges |-> 0, retries |-> 0]

EmptyPlan == [nodes |-> <<>>, edges |-> <<>>]

StructuralOutcome(p, v, triggered, success) ==
    [plan |-> p, struct_valid |-> v.is_valid, struct_errors |-> v.errors,
     triggered |-> triggered, success |-> success]

\* Layer 1 for the verdict v on the generated plan and the result r that
\* repair_and_verify gives for it
structural_outcome(p, v, auto_repair, r) ==
    IF v.is_valid \/ ~auto_repair THEN StructuralOutcome(p, v, FALSE, FALSE)
    ELSE IF r.is_valid THEN StructuralOutcome(r.plan, verify(to_networkx(r.plan)), TRUE, TRUE)
    ELSE StructuralOutcome(p, v, TRUE, FALSE)

\* Layer 1 of generate_bdi_plan on a generated plan
structural_layer(p, auto_repair, iter) ==
    structural_outcome(p, verify(to_networkx(p)), auto_repair, repair_and_verify(p, iter))

(***************************************************************************)
(* State.                                                                  *)
(*   graph operations : plan, pc, verdict, order, result, again, rav,      *)
(*                      canon, canon2                                      *)
(*   validate_plan    : b_*                                                *)
(*   verify_plan      : v_* (v_run: what subprocess.run returned/raised)   *)
(*   generate_bdi_plan: o_*                                                *)
(*   run_batch_evaluation: t_* and api_semaphore                           *)
(*   verify_full      : f_result                                           *)
(***************************************************************************)
VARIABLES plan, pc, verdict, order, result, again, rav, canon, canon2
VARIABLES b_plan_actions, b_init_state, b_i, b_state, b_errors, b_pc, b_result
VARIABLES v_plan_actions, v_verbose, v_pc, v_plan_file, v_runs, v_run, v_result
VARIABLES o_in, o_pc, o_attempt, o_plan, o_struct_valid, o_symbolic_valid, o_symbolic_errors,
          o_pddl_actions, o_val_repair_attempt, o_history, o_metrics, o_last_error, o_sleeps, o_result
VARIABLES t_in, t_main, t_submitted, t_queue, t_threads, t_idle_semaphore, t_acquiring,
          t_evaluating, t_validating, api_semaphore, t_done, t_results
VARIABLES f_result

gvars == <<plan, pc, verdict, order, result, again, rav, canon, canon2>>
bvars == <<b_plan_actions, b_init_state, b_i, b_state, b_errors, b_pc, b_result>>
vvars == <<v_plan_actions, v_verbose, v_pc, v_plan_file, v_runs, v_run, v_result>>
ovars == <<o_in, o_pc, o_attempt, o_plan, o_struct_valid, o_symbolic_valid, o_symbolic_errors,
           o_pddl_actions, o_val_repair_attempt, o_history, o_metrics, o_last_error, o_sleeps, o_result>>
tvars == <<t_in, t_main, t_submitted, t_queue, t_threads, t_idle_semaphore, t_acquiring,
           t_evaluating, t_validating, api_semaphore, t_done, t_results>>
fvars == <<f_result>>
vars == <<gvars, bvars, vvars, ovars, tvars, fvars>>

None == "none"

\* the value of a record variable that is not assigned yet
Unset == [unset |-> TRUE]

\* the value of the variable order before topological_sort returned
NoOrder == <<None>>

\* a component that takes no part in a specification
GraphOff ==
    /\ plan = None /\ pc = "off" /\ verdict = None /\ order = None /\ result = None
    /\ again = None /\ rav = None /\ canon = None /\ canon2 = None

BlocksOff ==
    /\ b_plan_actions = None /\ b_init_state = None /\ b_i = 0 /\ b_state = None
    /\ b_errors = None /\ b_pc = "off" /\ b_result = None

ValOff ==
    /\ v_plan_actions = None /\ v_verbose = FALSE /\ v_pc = "off" /\ v_plan_file = None
    /\ v_runs = 0 /\ v_run = None /\ v_result = None

OrchOff ==
    /\ o_in = None /\ o_pc = "off" /\ o_attempt = 0 /\ o_plan = None
    /\ o_struct_valid = FALSE /\ o_symbolic_valid = FALSE /\ o_symbolic_errors = None
    /\ o_pddl_actions = None /\ o_val_repair_attempt = 0 /\ o_history = None
    /\ o_metrics = None /\ o_last_error = None /\ o_sleeps = None /\ o_result = None

\* IntegratedVerifier.verify_full was not called
FullOff == f_result = Unset

BatchOff ==
    /\ t_in = None /\ t_main = "off" /\ t_submitted = 0 /\ t_queue = 0 /\ t_threads = 0
    /\ t_idle_semaphore = 0 /\ t_acquiring = 0 /\ t_evaluating = 0 /\ t_validating = 0
    /\ api_semaphore = 0 /\ t_done = 0 /\ t_results = 0

(***************************************************************************)
(* SpecGraph: one plan, and the graph operations applied to it.            *)
(***************************************************************************)
GraphStart(plans) ==
    /\ plan \in plans
    /\ pc = "start"
    /\ verdict = Unset /\ order = NoOrder /\ result = Unset /\ again = Unset
    /\ rav = Unset /\ canon = Unset /\ canon2 = Unset

GraphInit == GraphStart(BDIPlan) /\ BlocksOff /\ ValOff /\ OrchOff /\ BatchOff /\ FullOff

Verify ==
    /\ pc = "start"
    /\ verdict' = verify(to_networkx(plan))
    /\ pc' = "verify"
    /\ UNCHANGED <<plan, order, result, again, rav, canon, canon2, bvars, vvars, ovars, tvars, fvars>>

TopologicalSort ==
    /\ pc = "start"
    /\ order' = topological_sort(to_networkx(plan))
    /\ pc' = "topological_sort"
    /\ UNCHANGED <<plan, verdict, result, again, rav, canon, canon2, bvars, vvars, ovars, tvars, fvars>>

RepairPlan ==
    /\ pc = "start"
    /\ \E iter \in RepairIters(plan) : result' = repair(plan, iter)
    /\ pc' = "repair"
    /\ UNCHANGED <<plan, verdict, order, again, rav, canon, canon2, bvars, vvars, ovars, tvars, fvars>>

\* repair applied to the plan a successful repair returned
RepairAgain ==
    /\ pc = "repair"
    /\ result.success
    /\ \E iter \in RepairIters(result.repaired_plan[1]) :
          again' = repair(result.repaired_plan[1], iter)
    /\ pc' = "repair_again"
    /\ UNCHANGED <<plan, verdict, order, result, rav, canon, canon2, bvars, vvars, ovars, tvars, fvars>>

RepairAndVerify ==
    /\ pc = "start"
    /\ \E iter \in RepairIters(plan) : rav' = repair_and_verify(plan, iter)
    /\ pc' = "repair_and_verify"
    /\ UNCHANGED <<plan, verdict, order, result, again, canon, canon2, bvars, vvars, ovars, tvars, fvars>>

GraphNext ==
    \/ Verify
    \/ TopologicalSort
    \/ RepairPlan
    \/ RepairAgain
    \/ RepairAndVerify

SpecGraph == GraphInit /\ [][GraphNext]_vars

(***************************************************************************)
(* SpecVerify: PlanVerifier.verify on plans of up to three edges.          *)
(***************************************************************************)
VerifyMaxNodes == 3
VerifyMaxEdges == 3

VerifyPlans == [nodes : SeqsUpTo(Ids, VerifyMaxNodes), edges : SeqsUpTo(Ids \X Ids, VerifyMaxEdges)]

VerifyInit == GraphStart(VerifyPlans) /\ BlocksOff /\ ValOff /\ OrchOff /\ BatchOff /\ FullOff

VerifyNext == Verify

SpecVerify == VerifyInit /\ [][VerifyNext]_vars

(***************************************************************************)
(* SpecRepair: PlanRepairer.repair and repair_and_verify on the plans over *)
(* three action ids, none of them an anchor id.                            *)
(***************************************************************************)
RepairMaxNodes == 3
RepairMaxEdges == 2

ActionIds == {"a", "b", "c"}

RepairPlans ==
    [nodes : SeqsUpTo(ActionIds, RepairMaxNodes),
     edges : SeqsUpTo(ActionIds \X ActionIds, RepairMaxEdges)]

RepairInit == GraphStart(RepairPlans) /\ BlocksOff /\ ValOff /\ OrchOff /\ BatchOff /\ FullOff

RepairNext ==
    \/ RepairPlan
    \/ RepairAgain
    \/ RepairAndVerify

SpecRepair == RepairInit /\ [][RepairNext]_vars

(***************************************************************************)
(* SpecCanon: PlanCanonicalizer applied to a plan, and to its own output.  *)
(***************************************************************************)
CanonMaxNodes == 2
CanonMaxEdges == 3

CanonPlans == [nodes : SeqsUpTo(Ids, CanonMaxNodes), edges : SeqsUpTo(Ids \X Ids, CanonMaxEdges)]

CanonInit == GraphStart(CanonPlans) /\ BlocksOff /\ ValOff /\ OrchOff /\ BatchOff /\ FullOff

Canonicalize ==
    /\ pc = "start"
    /\ canon' = canonicalize(plan)
    /\ pc' = "canonicalize"
    /\ UNCHANGED <<plan, verdict, order, result, again, rav, canon2, bvars, vvars, ovars, tvars, fvars>>

CanonicalizeAgain ==
    /\ pc = "canonicalize"
    /\ canon2' = canonicalize(canon)
    /\ pc' = "canonicalize_again"
    /\ UNCHANGED <<plan, verdict, order, result, again, rav, canon, bvars, vvars, ovars, tvars, fvars>>

CanonNext ==
    \/ Canonicalize
    \/ CanonicalizeAgain

SpecCanon == CanonInit /\ [][CanonNext]_vars

(***************************************************************************)
(* SpecBlocks: BlocksworldPhysicsValidator.validate_plan, one loop         *)
(* iteration per step.                                                     *)
(***************************************************************************)
MaxPlanLen == 2

BlocksInit ==
    /\ b_plan_actions \in SeqsUpTo(ActionStrings, MaxPlanLen)
    /\ b_init_state \in InitStates
    /\ b_state = b_init_state
    /\ b_i = 0
    /\ b_errors = <<>>
    /\ b_pc = "loop"
    /\ b_result = Unset
    /\ GraphOff /\ ValOff /\ OrchOff /\ BatchOff /\ FullOff

\* the loop body for action number b_i + 1
ValidateStep ==
    /\ b_pc = "loop"
    /\ b_i < Len(b_plan_actions)
    /\ \E r \in {validate_action(b_state, b_plan_actions[b_i + 1], b_i + 1)} :
          /\ b_state' = r.state
          /\ b_errors' = b_errors \o r.errors
    /\ b_i' = b_i + 1
    /\ UNCHANGED <<b_plan_actions, b_init_state, b_pc, b_result, gvars, vvars, ovars, tvars, fvars>>

\* is_valid = len(errors) == 0; return
ValidateReturn ==
    /\ b_pc = "loop"
    /\ b_i = Len(b_plan_actions)
    /\ b_result' = [is_valid |-> Len(b_errors) = 0, errors |-> b_errors]
    /\ b_pc' = "returned"
    /\ UNCHANGED <<b_plan_actions, b_init_state, b_i, b_state, b_errors, gvars, vvars, ovars, tvars, fvars>>

BlocksNext ==
    \/ ValidateStep
    \/ ValidateReturn

SpecBlocks == BlocksInit /\ [][BlocksNext]_vars

(***************************************************************************)
(* SpecVal: PDDLSymbolicVerifier.verify_plan.                              *)
(***************************************************************************)
NoFile == [status |-> "none", lines |-> <<>>]

\* subprocess.run was not called yet
NotRun == [kind |-> "none", output |-> {}]

ValInit ==
    /\ v_plan_actions \in SeqsUpTo(PddlActionStrings, MaxValActions)
    /\ v_verbose \in BOOLEAN
    /\ v_pc = "start"
    /\ v_plan_file = NoFile
    /\ v_runs = 0
    /\ v_run = NotRun
    /\ v_result = Unset
    /\ GraphOff /\ BlocksOff /\ OrchOff /\ BatchOff /\ FullOff

\* if not plan_actions: return False, [...]
RejectEmpty ==
    /\ v_pc = "start"
    /\ rejects_at_once(v_plan_actions)
    /\ v_result' = EmptyPlanVerdict
    /\ v_pc' = "returned"
    /\ UNCHANGED <<v_plan_actions, v_verbose, v_plan_file, v_runs, v_run, gvars, bvars, ovars, tvars, fvars>>

\* _create_plan_file, outside the try block of verify_plan
CreatePlanFile ==
    /\ v_pc = "start"
    /\ ~rejects_at_once(v_plan_actions)
    /\ \/ /\ v_plan_file' = [status |-> "exists",
                             lines |-> [i \in 1..Len(v_plan_actions) |-> plan_file_line(v_plan_actions[i])]]
          /\ v_pc' = "try"
       \/ \* the file cannot be created: the exception leaves verify_plan
          /\ v_plan_file' = NoFile
          /\ v_pc' = "raised"
       \/ \* a write fails after the file was created (delete=False)
          /\ \E k \in 0..(Len(v_plan_actions) - 1) :
                v_plan_file' = [status |-> "exists",
                                lines |-> [i \in 1..k |-> plan_file_line(v_plan_actions[i])]]
          /\ v_pc' = "raised"
    /\ UNCHANGED <<v_plan_actions, v_verbose, v_runs, v_run, v_result, gvars, bvars, ovars, tvars, fvars>>

\* subprocess.run and the branch of the try statement its outcome selects
RunValidator ==
    /\ v_pc = "try"
    /\ \E outcome \in RunOutcomes :
          /\ v_run' = outcome
          /\ v_result' = verdict_of(outcome, v_verbose)
    /\ v_runs' = v_runs + 1
    /\ v_pc' = "finally"
    /\ UNCHANGED <<v_plan_actions, v_verbose, v_plan_file, gvars, bvars, ovars, tvars, fvars>>

\* finally: unlink the plan file if it exists; return
CleanUp ==
    /\ v_pc = "finally"
    /\ v_plan_file' = IF v_plan_file.status = "exists"
                      THEN [v_plan_file EXCEPT !.status = "removed"] ELSE v_plan_file
    /\ v_pc' = "returned"
    /\ UNCHANGED <<v_plan_actions, v_verbose, v_runs, v_run, v_result, gvars, bvars, ovars, tvars, fvars>>

ValNext ==
    \/ RejectEmpty
    \/ CreatePlanFile
    \/ RunValidator
    \/ CleanUp

SpecVal == ValInit /\ [][ValNext]_vars

(***************************************************************************)
(* SpecOrch: generate_bdi_plan, one step per call of a collaborator and    *)
(* per layer.                                                              *)
(***************************************************************************)
\* a path argument: None, the empty string, or a path
PathValues == {None, "", "file.pddl"}

\* the truth value Python gives a path argument
Truthy(path) == path \notin {None, ""}

\* the layers verify_full reports that are not valid
failed_layers(layers) ==
    SelectSeq(<<"structural", "symbolic", "physics">>, LAMBDA name : ~layers[name].valid)

\* IntegratedVerifier.verify_full: the three layers for the verdict of
\* PlanVerifier.verify and the answers of the two validators
verify_full_layers(structural, domain_file, problem_file, init_state, physics_validator, val, phys) ==
    [structural |-> [valid |-> structural.is_valid, errors |-> structural.errors],
     symbolic |-> IF Truthy(domain_file) /\ Truthy(problem_file) /\ structural.is_valid
                  THEN [valid |-> val.is_valid, errors |-> val.errors]
                  ELSE [valid |-> FALSE,
                        errors |-> <<"Skipped (missing files or structural errors)">>],
     physics |-> IF physics_validator /\ init_state
                 THEN [valid |-> phys.is_valid, errors |-> phys.errors]
                 ELSE [valid |-> TRUE, errors |-> <<>>]]

\* overall_valid = all(layer['valid'] ...) and the error summary
overall_verdict(layers) ==
    [layers |-> layers,
     overall_valid |-> layers.structural.valid /\ layers.symbolic.valid /\ layers.physics.valid,
     failed_layers |-> failed_layers(layers)]

verify_full(structural, domain_file, problem_file, init_state, physics_validator, val, phys) ==
    overall_verdict(verify_full_layers(structural, domain_file, problem_file, init_state,
                                       physics_validator, val, phys))

OrchInputs ==
    [max_retries : 0..MaxRetries, pddl_problem_path : PathValues, pddl_domain_path : PathValues,
     init_state : BOOLEAN, auto_repair : BOOLEAN, blocksworld : BOOLEAN]

OrchInit ==
    /\ o_in \in OrchInputs
    /\ o_pc = "generate"
    /\ o_attempt = 0
    /\ o_plan = Unset
    /\ o_struct_valid = FALSE
    /\ o_symbolic_valid = FALSE
    /\ o_symbolic_errors = <<>>
    /\ o_pddl_actions = <<>>
    /\ o_val_repair_attempt = 0
    /\ o_history = <<>>
    /\ o_metrics = InitialMetrics
    /\ o_last_error = None
    /\ o_sleeps = <<>>
    /\ o_result = Unset
    /\ GraphOff /\ BlocksOff /\ ValOff /\ BatchOff /\ FullOff

Returned(p, is_valid, metrics) == [plan |-> p, is_valid |-> is_valid, metrics |-> metrics]

\* planner.generate_plan returns a plan: Layer 1 follows
GenerateOk ==
    /\ o_pc = "generate"
    /\ o_attempt < o_in.max_retries
    /\ \E p \in CandidatePlans : \E iter \in RepairIters(p) :
          \E l \in {structural_layer(p, o_in.auto_repair, iter)} :
             /\ o_plan' = l.plan
             /\ o_struct_valid' = l.struct_valid
             /\ o_metrics' = [o_metrics EXCEPT
                                 !.retries = o_attempt,
                                 !.auto_repair = [triggered |-> @.triggered \/ l.triggered,
                                                  success |-> @.success \/ l.success],
                                 !.structural = [valid |-> l.struct_valid, errors |-> l.struct_errors],
                                 !.num_nodes = Len(l.plan.nodes),
                                 !.num_edges = Len(l.plan.edges)]
    /\ UNCHANGED o_sleeps
    /\ o_pc' = "layer2"
    /\ UNCHANGED <<o_in, o_attempt, o_symbolic_valid, o_symbolic_errors, o_pddl_actions,
                   o_val_repair_attempt, o_history, o_last_error, o_result, gvars, bvars, vvars, tvars, fvars>>

\* planner.generate_plan raises
GenerateRaises ==
    /\ o_pc = "generate"
    /\ o_attempt < o_in.max_retries
    /\ \E message \in ErrorMessages : o_last_error' = message
    /\ UNCHANGED o_sleeps
    /\ o_pc' = "except"
    /\ UNCHANGED <<o_in, o_attempt, o_plan, o_struct_valid, o_symbolic_valid, o_symbolic_errors,
                   o_pddl_actions, o_val_repair_attempt, o_history, o_metrics, o_result,
                   gvars, bvars, vvars, tvars, fvars>>

\* the for loop ends without a return (lines after the loop)
RetriesExhausted ==
    /\ o_pc = "generate"
    /\ o_attempt >= o_in.max_retries
    /\ o_result' = Returned(EmptyPlan, FALSE,
                            [o_metrics EXCEPT !.structural.errors = <<"Max retries exceeded">>])
    /\ o_pc' = "returned"
    /\ UNCHANGED <<o_in, o_attempt, o_plan, o_struct_valid, o_symbolic_valid, o_symbolic_errors,
                   o_pddl_actions, o_val_repair_attempt, o_history, o_metrics, o_last_error,
                   o_sleeps, gvars, bvars, vvars, tvars, fvars>>

\* no handler: the exception leaves generate_bdi_plan
PropagateException ==
    /\ o_pc = "except"
    /\ o_pc' = "raised"
    /\ UNCHANGED <<o_in, o_attempt, o_plan, o_struct_valid, o_symbolic_valid, o_symbolic_errors,
                   o_pddl_actions, o_val_repair_attempt, o_history, o_metrics, o_last_error,
                   o_sleeps, o_result, gvars, bvars, vvars, tvars, fvars>>

\* except Exception as e: back off and retry, or return the empty plan
HandleException ==
    /\ o_pc = "except"
    /\ IF is_retryable(o_last_error) /\ o_attempt < o_in.max_retries - 1
       THEN /\ o_sleeps' = Append(o_sleeps, wait_time(o_attempt))
            /\ o_attempt' = o_attempt + 1
            /\ o_metrics' = [o_metrics EXCEPT !.retries = o_attempt + 1]
            /\ o_pc' = "generate"
            /\ UNCHANGED o_result
       ELSE /\ o_result' = Returned(EmptyPlan, FALSE,
                                    [o_metrics EXCEPT !.retries = o_attempt + 1,
                                                      !.structural.errors = <<o_last_error>>])
            /\ o_pc' = "returned"
            /\ UNCHANGED <<o_sleeps, o_attempt, o_metrics>>
    /\ UNCHANGED <<o_in, o_plan, o_struct_valid, o_symbolic_valid, o_symbolic_errors,
                   o_pddl_actions, o_val_repair_attempt, o_history, o_last_error,
                   gvars, bvars, vvars, tvars, fvars>>

\* Layer 2: which branch of the if statement is taken
SymbolicLayer ==
    /\ o_pc = "layer2"
    /\ IF o_struct_valid /\ Truthy(o_in.pddl_problem_path) /\ Truthy(o_in.pddl_domain_path)
       THEN /\ o_symbolic_valid' = FALSE
            /\ o_symbolic_errors' = <<"Skipped - Structural failure">>
            /\ o_pc' = "val"
       ELSE IF ~o_struct_valid
       THEN /\ o_symbolic_valid' = FALSE
            /\ o_symbolic_errors' = <<"Skipped - Structural failure">>
            /\ o_pc' = "layer3"
       ELSE /\ o_symbolic_valid' = (o_in.pddl_problem_path = None)
            /\ o_symbolic_errors' = <<"Skipped - Missing PDDL files">>
            /\ o_pc' = "layer3"
    /\ UNCHANGED <<o_in, o_attempt, o_plan, o_struct_valid, o_pddl_actions, o_val_repair_attempt,
                   o_history, o_metrics, o_last_error, o_sleeps, o_result, gvars, bvars, vvars, tvars, fvars>>

\* the conversion, the construction of the verifier or verify_plan raises:
\* the except branch of the symbolic layer
FirstValidationRaises ==
    /\ o_pc = "val"
    /\ o_symbolic_valid' = FALSE
    /\ o_symbolic_errors' = <<"Symbolic verification error">>
    /\ o_pc' = "layer3"
    /\ UNCHANGED <<o_in, o_attempt, o_plan, o_struct_valid, o_pddl_actions, o_val_repair_attempt,
                   o_history, o_metrics, o_last_error, o_sleeps, o_result, gvars, bvars, vvars, tvars, fvars>>

\* verify_plan on the generated plan; the repair loop starts with an empty history
FirstValidation ==
    /\ o_pc = "val"
    /\ \E v \in ValVerdicts :
          /\ o_symbolic_valid' = v.is_valid
          /\ o_symbolic_errors' = v.errors
    /\ o_pddl_actions' = bdi_to_pddl_actions(o_plan)
    /\ o_val_repair_attempt' = 0
    /\ o_history' = <<>>
    /\ UNCHANGED o_sleeps
    /\ o_pc' = "while"
    /\ UNCHANGED <<o_in, o_attempt, o_plan, o_struct_valid, o_metrics, o_last_error, o_result,
                   gvars, bvars, vvars, tvars, fvars>>

\* while not symbolic_valid and val_repair_attempt < max_val_repairs: the
\* attempt is counted and recorded before the corrective call
RepairLoopHead ==
    /\ o_pc = "while"
    /\ IF loop_continues(o_symbolic_valid, o_val_repair_attempt)
       THEN /\ o_val_repair_attempt' = o_val_repair_attempt + 1
            /\ o_metrics' = [o_metrics EXCEPT
                                !.val_repair.attempts = o_val_repair_attempt + 1,
                                !.val_repair.history =
                                    Append(@, [attempt |-> o_val_repair_attempt + 1,
                                               errors |-> FirstN(clean_errors(o_symbolic_errors), 5),
                                               repaired |-> FALSE])]
            /\ o_history' = record_attempt(o_history, o_val_repair_attempt + 1, o_pddl_actions,
                                           clean_errors(o_symbolic_errors))
            /\ o_pc' = "corrective"
       ELSE /\ o_pc' = "layer3"
            /\ UNCHANGED <<o_val_repair_attempt, o_metrics, o_history>>
    /\ UNCHANGED <<o_in, o_attempt, o_plan, o_struct_valid, o_symbolic_valid, o_symbolic_errors,
                   o_pddl_actions, o_last_error, o_sleeps, o_result, gvars, bvars, vvars, tvars, fvars>>

\* planner.repair_from_val_errors and the structural check of its plan
Corrective ==
    /\ o_pc = "corrective"
    /\ UNCHANGED o_sleeps
    /\ \/ \* the call raises: break
          /\ o_pc' = "layer3"
          /\ UNCHANGED o_plan
       \/ \E raw \in CandidatePlans : \E iter \in RepairIters(raw) :
             \E r \in {repair_from_val_errors(raw, o_in.auto_repair, iter)} :
                IF r = <<>>
                THEN o_pc' = "layer3" /\ UNCHANGED o_plan
                ELSE /\ o_plan' = r[1]
                     /\ o_pc' = IF verify(to_networkx(r[1])).is_valid THEN "val_again" ELSE "layer3"
    /\ UNCHANGED <<o_in, o_attempt, o_struct_valid, o_symbolic_valid, o_symbolic_errors,
                   o_pddl_actions, o_val_repair_attempt, o_history, o_metrics, o_last_error,
                   o_result, gvars, bvars, vvars, tvars, fvars>>

\* the conversion or verify_plan raises inside the loop: break
ValidationAgainRaises ==
    /\ o_pc = "val_again"
    /\ o_pc' = "layer3"
    /\ o_pddl_actions' \in {o_pddl_actions, bdi_to_pddl_actions(o_plan)}
    /\ UNCHANGED <<o_in, o_attempt, o_plan, o_struct_valid, o_symbolic_valid, o_symbolic_errors,
                   o_val_repair_attempt, o_history, o_metrics, o_last_error,
                   o_sleeps, o_result, gvars, bvars, vvars, tvars, fvars>>

\* verify_plan on the corrective plan
ValidationAgain ==
    /\ o_pc = "val_again"
    /\ o_pddl_actions' = bdi_to_pddl_actions(o_plan)
    /\ \E v \in ValVerdicts :
          /\ o_symbolic_valid' = v.is_valid
          /\ o_symbolic_errors' = v.errors
          /\ o_metrics' = IF v.is_valid
                          THEN [o_metrics EXCEPT
                                   !.val_repair.success = TRUE,
                                   !.val_repair.history[Len(o_metrics.val_repair.history)].repaired = TRUE,
                                   !.num_nodes = Len(o_plan.nodes),
                                   !.num_edges = Len(o_plan.edges)]
                          ELSE o_metrics
    /\ UNCHANGED o_sleeps
    /\ o_pc' = "while"
    /\ UNCHANGED <<o_in, o_attempt, o_plan, o_struct_valid, o_val_repair_attempt, o_history,
                   o_last_error, o_result, gvars, bvars, vvars, tvars, fvars>>

\* the last lines of the try block, for a verdict of the physics layer
Finish(physics) ==
    LET overall_valid == o_struct_valid /\ o_symbolic_valid /\ physics.is_valid
    IN /\ o_result' = Returned(o_plan, overall_valid,
                               [o_metrics EXCEPT
                                   !.symbolic = [valid |-> o_symbolic_valid, errors |-> o_symbolic_errors],
                                   !.physics = [valid |-> physics.is_valid, errors |-> physics.errors],
                                   !.overall_valid = overall_valid])
       /\ o_pc' = "returned"

\* Layer 3 is not run: no init_state, or a structural failure
PhysicsNotRun ==
    /\ o_pc = "layer3"
    /\ ~(o_in.init_state /\ o_struct_valid)
    /\ Finish([is_valid |-> TRUE, errors |-> <<>>])
    /\ UNCHANGED <<o_in, o_attempt, o_plan, o_struct_valid, o_symbolic_valid, o_symbolic_errors,
                   o_pddl_actions, o_val_repair_attempt, o_history, o_metrics, o_last_error,
                   o_sleeps, gvars, bvars, vvars, tvars, fvars>>

\* Layer 3: the conversion, then validate_plan for blocksworld
PhysicsLayer ==
    /\ o_pc = "layer3"
    /\ o_in.init_state /\ o_struct_valid
    /\ IF o_in.blocksworld
       THEN /\ \E v \in PhysicsVerdicts : Finish(v)
            /\ UNCHANGED o_sleeps
       ELSE /\ Finish([is_valid |-> TRUE, errors |-> <<"Skipped - No physics validator for this domain">>])
            /\ UNCHANGED o_sleeps
    /\ UNCHANGED <<o_in, o_attempt, o_plan, o_struct_valid, o_symbolic_valid, o_symbolic_errors,
                   o_pddl_actions, o_val_repair_attempt, o_history, o_metrics, o_last_error,
                   gvars, bvars, vvars, tvars, fvars>>

\* Layer 3 raises: the handler of the retry loop takes over
PhysicsLayerRaises ==
    /\ o_pc = "layer3"
    /\ o_in.init_state /\ o_struct_valid
    /\ \E message \in ErrorMessages : o_last_error' = message
    /\ o_metrics' = [o_metrics EXCEPT
                        !.symbolic = [valid |-> o_symbolic_valid, errors |-> o_symbolic_errors]]
    /\ o_pc' = "except"
    /\ UNCHANGED <<o_in, o_attempt, o_plan, o_struct_valid, o_symbolic_valid, o_symbolic_errors,
                   o_pddl_actions, o_val_repair_attempt, o_history, o_sleeps, o_result,
                   gvars, bvars, vvars, tvars, fvars>>

\* IntegratedVerifier(domain).verify_full on the plan generate_bdi_plan
\* returned, with the files and the initial state of that call; the
\* validators answer as they may
VerifyFull ==
    /\ o_pc = "returned"
    /\ f_result = Unset
    /\ \E val \in ValVerdicts, phys \in PhysicsVerdicts :
          f_result' = verify_full(verify(to_networkx(o_result.plan)), o_in.pddl_domain_path,
                                  o_in.pddl_problem_path, o_in.init_state, o_in.blocksworld,
                                  val, phys)
    /\ UNCHANGED <<ovars, gvars, bvars, vvars, tvars>>

OrchNext ==
    \/ GenerateOk
    \/ GenerateRaises
    \/ RetriesExhausted
    \/ HandleException
    \/ SymbolicLayer
    \/ FirstValidationRaises
    \/ FirstValidation
    \/ RepairLoopHead
    \/ Corrective
    \/ ValidationAgainRaises
    \/ ValidationAgain
    \/ PhysicsNotRun
    \/ PhysicsLayer
    \/ PhysicsLayerRaises
    \/ VerifyFull

SpecOrch == OrchInit /\ [][OrchNext]_vars

(***************************************************************************)
(* SpecBatch: run_batch_evaluation.                                        *)
(*                                                                         *)
(* The main thread submits one task per instance to a ThreadPoolExecutor   *)
(* and collects the results; every worker thread of the pool runs          *)
(* rate_limited_evaluate.  The worker threads are alike, so their          *)
(* positions are kept as the number of threads at each position.           *)
(***************************************************************************)
MaxWorkers == 16
MaxInstances == 16

\* threading.Semaphore(15)
api_permits == 15

WorkerCounts == {1, 2, MaxWorkers}
InstanceCounts == {0, 3, MaxInstances}

BatchInputs == [parallel : BOOLEAN, max_workers : WorkerCounts, instances : InstanceCounts]

\* if parallel and max_workers > 1
parallel_mode(in) == in.parallel /\ in.max_workers > 1

\* the worker threads that run a task
Busy == t_acquiring + t_evaluating + t_validating

\* the pool starts a thread for every task it is given
spawns_always(num_threads, max_workers, idle) == 1

\* ThreadPoolExecutor._adjust_thread_count: the threads a submit starts
adjust_thread_count(num_threads, max_workers, idle) ==
    IF idle > 0 THEN 0
    ELSE IF num_threads < max_workers THEN 1
    ELSE 0

BatchInit ==
    /\ t_in \in BatchInputs
    /\ t_main = "start"
    /\ t_submitted = 0 /\ t_queue = 0 /\ t_threads = 0 /\ t_idle_semaphore = 0
    /\ t_acquiring = 0 /\ t_evaluating = 0 /\ t_validating = 0
    /\ api_semaphore = 0
    /\ t_done = 0 /\ t_results = 0
    /\ GraphOff /\ BlocksOff /\ ValOff /\ OrchOff /\ FullOff

\* the branch on the mode; the parallel mode creates the semaphore
StartBatch ==
    /\ t_main = "start"
    /\ IF parallel_mode(t_in)
       THEN t_main' = "submit" /\ api_semaphore' = api_permits
       ELSE t_main' = "serial" /\ UNCHANGED api_semaphore
    /\ UNCHANGED <<t_in, t_submitted, t_queue, t_threads, t_idle_semaphore, t_acquiring,
                   t_evaluating, t_validating, t_done, t_results, gvars, bvars, vvars, ovars, fvars>>

\* executor.submit(rate_limited_evaluate, instance_file, domain)
Submit ==
    /\ t_main = "submit"
    /\ t_submitted < t_in.instances
    /\ t_submitted' = t_submitted + 1
    /\ t_queue' = t_queue + 1
    /\ t_threads' = t_threads + adjust_thread_count(t_threads, t_in.max_workers, t_idle_semaphore)
    /\ t_idle_semaphore' = IF t_idle_semaphore > 0 THEN t_idle_semaphore - 1 ELSE 0
    /\ UNCHANGED <<t_in, t_main, t_acquiring, t_evaluating, t_validating, api_semaphore,
                   t_done, t_results, gvars, bvars, vvars, ovars, fvars>>

\* every task is submitted: the main thread waits in as_completed
AllSubmitted ==
    /\ t_main = "submit"
    /\ t_submitted = t_in.instances
    /\ t_main' = "collect"
    /\ UNCHANGED <<t_in, t_submitted, t_queue, t_threads, t_idle_semaphore, t_acquiring,
                   t_evaluating, t_validating, api_semaphore, t_done, t_results,
                   gvars, bvars, vvars, ovars, fvars>>

\* an idle worker thread takes a task from the queue and calls
\* rate_limited_evaluate
TakeTask ==
    /\ t_threads - Busy > 0
    /\ t_queue > 0
    /\ t_queue' = t_queue - 1
    /\ t_acquiring' = t_acquiring + 1
    /\ UNCHANGED <<t_in, t_main, t_submitted, t_threads, t_idle_semaphore, t_evaluating,
                   t_validating, api_semaphore, t_done, t_results, gvars, bvars, vvars, ovars, fvars>>

\* with api_semaphore: the thread gets a permit and calls
\* evaluate_single_instance
Acquire ==
    /\ t_acquiring > 0
    /\ api_semaphore > 0
    /\ api_semaphore' = api_semaphore - 1
    /\ t_acquiring' = t_acquiring - 1
    /\ t_evaluating' = t_evaluating + 1
    /\ UNCHANGED <<t_in, t_main, t_submitted, t_queue, t_threads, t_idle_semaphore,
                   t_validating, t_done, t_results, gvars, bvars, vvars, ovars, fvars>>

\* generate_bdi_plan calls verify_plan: the external validator runs
StartValidator ==
    /\ t_evaluating > 0
    /\ t_evaluating' = t_evaluating - 1
    /\ t_validating' = t_validating + 1
    /\ UNCHANGED <<t_in, t_main, t_submitted, t_queue, t_threads, t_idle_semaphore,
                   t_acquiring, api_semaphore, t_done, t_results, gvars, bvars, vvars, ovars, fvars>>

\* verify_plan returns
ValidatorReturns ==
    /\ t_validating > 0
    /\ t_validating' = t_validating - 1
    /\ t_evaluating' = t_evaluating + 1
    /\ UNCHANGED <<t_in, t_main, t_submitted, t_queue, t_threads, t_idle_semaphore,
                   t_acquiring, api_semaphore, t_done, t_results, gvars, bvars, vvars, ovars, fvars>>

\* evaluate_single_instance returns in a worker thread: the permit is given
\* back, the future is done and the thread is idle again
EvaluateReturns ==
    /\ t_main # "serial"
    /\ t_evaluating > 0
    /\ t_evaluating' = t_evaluating - 1
    /\ api_semaphore' = api_semaphore + 1
    /\ t_done' = t_done + 1
    /\ t_idle_semaphore' = t_idle_semaphore + 1
    /\ UNCHANGED <<t_in, t_main, t_submitted, t_queue, t_threads, t_acquiring, t_validating,
                   t_results, gvars, bvars, vvars, ovars, fvars>>

\* for future in as_completed(...): the result is appended under the lock
Collect ==
    /\ t_main = "collect"
    /\ t_done > 0
    /\ t_done' = t_done - 1
    /\ t_results' = t_results + 1
    /\ UNCHANGED <<t_in, t_main, t_submitted, t_queue, t_threads, t_idle_semaphore,
                   t_acquiring, t_evaluating, t_validating, api_semaphore,
                   gvars, bvars, vvars, ovars, fvars>>

\* every future is collected: the executor is shut down
Shutdown ==
    /\ t_main = "collect"
    /\ t_results = t_in.instances
    /\ t_main' = "done"
    /\ t_threads' = 0
    /\ UNCHANGED <<t_in, t_submitted, t_queue, t_idle_semaphore, t_acquiring, t_evaluating,
                   t_validating, api_semaphore, t_done, t_results, gvars, bvars, vvars, ovars, fvars>>

\* serial mode: the main thread calls evaluate_single_instance
SerialEvaluate ==
    /\ t_main = "serial"
    /\ t_results < t_in.instances
    /\ t_evaluating + t_validating = 0
    /\ t_evaluating' = 1
    /\ UNCHANGED <<t_in, t_main, t_submitted, t_queue, t_threads, t_idle_semaphore,
                   t_acquiring, t_validating, api_semaphore, t_done, t_results,
                   gvars, bvars, vvars, ovars, fvars>>

\* serial mode: the call returns and the result is appended
SerialReturns ==
    /\ t_main = "serial"
    /\ t_evaluating = 1
    /\ t_evaluating' = 0
    /\ t_results' = t_results + 1
    /\ UNCHANGED <<t_in, t_main, t_submitted, t_queue, t_threads, t_idle_semaphore,
                   t_acquiring, t_validating, api_semaphore, t_done, gvars, bvars, vvars, ovars, fvars>>

\* serial mode: the for loop ends
SerialDone ==
    /\ t_main = "serial"
    /\ t_results = t_in.instances
    /\ t_main' = "done"
    /\ UNCHANGED <<t_in, t_submitted, t_queue, t_threads, t_idle_semaphore, t_acquiring,
                   t_evaluating, t_validating, api_semaphore, t_done, t_results,
                   gvars, bvars, vvars, ovars, fvars>>

BatchNext ==
    \/ StartBatch
    \/ Submit
    \/ AllSubmitted
    \/ TakeTask
    \/ Acquire
    \/ StartValidator
    \/ ValidatorReturns
    \/ EvaluateReturns
    \/ Collect
    \/ Shutdown
    \/ SerialEvaluate
    \/ SerialReturns
    \/ SerialDone

SpecBatch == BatchInit /\ [][BatchNext]_vars


(***************************************************************************)
(* Properties of the graph operations.                                     *)
(***************************************************************************)
InputGraph == to_networkx(plan)

DistinctIds(p) == \A i, j \in 1..Len(p.nodes) : p.nodes[i] = p.nodes[j] => i = j

\* A plan of the data model: the node ids are distinct and every edge
\* endpoint is the id of a listed node or one of the two reserved anchor ids.
IsPlan(p) ==
    /\ DistinctIds(p)
    /\ \A e \in Range(p.edges) : {e[1], e[2]} \subseteq Range(p.nodes) \cup {VIRTUAL_START, VIRTUAL_END}

\* a plan whose node ids are distinct and whose edges join listed nodes
WellFormed(p) ==
    /\ DistinctIds(p)
    /\ \A e \in Range(p.edges) : {e[1], e[2]} \subseteq Range(p.nodes)

HasCycle(G) == simple_cycles(G) # {}

IsPermutationOf(s, S) == Range(s) = S /\ Len(s) = Cardinality(S)

RespectsEdges(s, G) ==
    \A e \in EdgeSet(G) : IndexOf(s, e[1]) < IndexOf(s, e[2])

\* C1: verify on a graph with zero nodes is invalid with exactly the one
\* "plan is empty" diagnostic, and neither the connectivity check nor the
\* cycle check runs.
C1_EmptyPlanFailsFast ==
    (pc = "verify" /\ Len(InputGraph.nodes) = 0) =>
        /\ ~verdict.is_valid
        /\ verdict.errors = <<EmptyError>>
        /\ verdict.checks \cap {"connectivity", "cycles"} = {}

C1_Witness == pc = "verify" /\ Len(InputGraph.nodes) = 0

\* C4: topological_sort returns every node of an acyclic graph exactly once
\* with each edge's source before its target, and the empty sequence for a
\* graph that has a cycle.
C4_TopologicalSort ==
    pc = "topological_sort" =>
        IF HasCycle(InputGraph) THEN order = <<>>
        ELSE IsPermutationOf(order, NodeSet(InputGraph)) /\ RespectsEdges(order, InputGraph)

C4_Witness ==
    /\ pc = "topological_sort"
    /\ ~HasCycle(InputGraph)
    /\ Len(InputGraph.edges) >= 2
    /\ order # InputGraph.nodes

\* the edges a repair appended to the input's edge list
AddedEdges(p, q) == {q.edges[i] : i \in (Len(p.edges) + 1)..Len(q.edges)}

\* START -> r for each in-component root r, t -> END for each in-component terminal t
AnchorEdges(G) ==
    LET comps == weakly_connected_components(G)
    IN UNION {{<<VIRTUAL_START, r>> : r \in {n \in comps[i] : Predecessors(G, n) \cap comps[i] = {}}}
              \cup {<<t, VIRTUAL_END>> : t \in {n \in comps[i] : SuccessorSet(G, n) \cap comps[i] = {}}}
              : i \in 1..Len(comps)}

HasAnchorId(p) ==
    {VIRTUAL_START, VIRTUAL_END} \cap (Range(p.nodes) \cup UNION {{e[1], e[2]} : e \in Range(p.edges)}) # {}

RepairedAsClaimed(p, r) ==
    /\ r.success
    /\ LET q == r.repaired_plan[1]
           H == to_networkx(q)
       IN /\ is_weakly_connected(H)
          /\ ~HasCycle(H)
          /\ verify(H).is_valid
          /\ Len(q.nodes) <= Len(p.nodes) + 2
          /\ SubSeq(q.nodes, 1, Len(p.nodes)) = p.nodes
          /\ SubSeq(q.edges, 1, Len(p.edges)) = p.edges
          /\ Range(SubSeq(q.nodes, Len(p.nodes) + 1, Len(q.nodes))) \subseteq {VIRTUAL_START, VIRTUAL_END}
          /\ AddedEdges(p, q) = AnchorEdges(to_networkx(p))

\* C2: a plan (distinct node ids, edges between listed nodes) whose graph
\* has k >= 2 weakly connected components, all acyclic, is repaired
\* successfully; the result is weakly connected and acyclic, has at most the
\* two anchors as extra nodes, keeps every original node and edge, and the
\* added edges are exactly START -> root and terminal -> END for every
\* component.
C2_DisconnectedRepaired ==
    (/\ pc = "repair"
     /\ WellFormed(plan)
     /\ Len(weakly_connected_components(InputGraph)) >= 2
     /\ ~HasCycle(InputGraph))
    => RepairedAsClaimed(plan, result)

\* the same statement for plans that use no anchor id of their own
C2_AnchorFreeRepaired ==
    (/\ pc = "repair"
     /\ WellFormed(plan)
     /\ Len(weakly_connected_components(InputGraph)) >= 2
     /\ ~HasCycle(InputGraph)
     /\ ~HasAnchorId(plan))
    => RepairedAsClaimed(plan, result)

\* C3: repairing the plan a successful repair returned succeeds with
\* original_valid set, applies no repair and returns that plan unchanged; a
\* plan that verifies as valid passes through unchanged with zero repairs.
C3_RepairIdempotent ==
    /\ pc = "repair_again" =>
          again = RepairResult(TRUE, result.repaired_plan, TRUE, <<>>, <<>>)
    /\ (pc = "repair" /\ verify(InputGraph).is_valid) =>
          result = RepairResult(TRUE, <<plan>>, TRUE, <<>>, <<>>)

C3_Witness ==
    /\ pc = "repair_again"
    /\ ~result.original_valid
    /\ Len(result.repairs_applied) > 0

\* C5: when the plan still fails verification after the repair steps (as
\* every plan with a cycle does), repair reports success = false and hands
\* back no plan, and repair_and_verify hands back the input plan itself:
\* no anchor of a partial repair reaches the caller.
C5_FailedRepairReturnsOriginal ==
    /\ pc = "repair" =>
          /\ HasCycle(InputGraph) => ~result.success
          /\ result.success => verify(to_networkx(result.repaired_plan[1])).is_valid
          /\ ~result.success => result.repaired_plan = <<>>
    /\ pc = "repair_and_verify" =>
          /\ HasCycle(InputGraph) => ~rav.is_valid
          /\ ~rav.is_valid => rav.plan = plan

\* a failed repair whose steps had added anchors to the plan
C5_Witness ==
    /\ pc = "repair_and_verify"
    /\ ~rav.is_valid
    /\ HasCycle(InputGraph)
    /\ \E iter \in RepairIters(plan) : repair_steps(plan, InputGraph, iter).plan # plan

\* C6: canonicalize is idempotent on every plan: canonicalizing its own
\* output gives the same node ids in the same order and the same edges in
\* the same order.
C6_CanonicalizeIdempotent ==
    (pc = "canonicalize_again" /\ IsPlan(plan)) =>
        (canon2.nodes = canon.nodes /\ canon2.edges = canon.edges)

RECURSIVE Ordinals(_, _)
Ordinals(i, n) == IF i > n THEN <<>> ELSE <<ActionId(i)>> \o Ordinals(i + 1, n)

\* the input edges renamed by f, self-loops dropped
RenamedEdges(p, f) ==
    {<<f[e[1]], f[e[2]]>> : e \in {x \in Range(p.edges) : x[1] # x[2]}}

\* the number i of the ordinal id action_i, among the first n ordinals
OrdinalOf(id, n) == IndexOf(Ordinals(1, n), id)

CanonicalAsClaimed(p, c) ==
    /\ c.nodes = Ordinals(1, Len(p.nodes))
    /\ \A i, j \in 1..Len(c.edges) : c.edges[i] = c.edges[j] => i = j
    /\ \E f \in [NodeSet(to_networkx(p)) -> Range(Ordinals(1, Len(to_networkx(p).nodes)))] :
          /\ \A x, y \in DOMAIN f : f[x] = f[y] => x = y
          /\ \A e \in RenamedEdges(p, f) :
                OrdinalOf(e[1], Len(to_networkx(p).nodes)) < OrdinalOf(e[2], Len(to_networkx(p).nodes))
          /\ Range(c.edges) = RenamedEdges(p, f)

\* C7: canonicalize of an acyclic plan with N nodes returns exactly N nodes
\* with ids action_1 .. action_N numbered along a topological order (every
\* output edge goes from a lower to a higher ordinal), and the output edges
\* are the renamed input edges without self-loops and without repetitions.
C7_CanonicalOrdinals ==
    (/\ pc = "canonicalize"
     /\ IsPlan(plan)
     /\ ~HasCycle(RemoveSelfLoops(InputGraph)))
    => CanonicalAsClaimed(plan, canon)

C7_WellFormedOrdinals ==
    (/\ pc = "canonicalize"
     /\ WellFormed(plan)
     /\ ~HasCycle(RemoveSelfLoops(InputGraph)))
    => CanonicalAsClaimed(plan, canon)

C6_WellFormedIdempotent ==
    (pc = "canonicalize_again" /\ WellFormed(plan)) =>
        (canon2.nodes = canon.nodes /\ canon2.edges = canon.edges)

(***************************************************************************)
(* Properties of validate_plan.                                            *)
(***************************************************************************)
\* a pick-up or put-down of one block, or a stack of one block on another
WellFormedAction(action) ==
    \/ Len(action) = 2 /\ action[1] \in {"pick-up", "put-down"}
    \/ Len(action) = 3 /\ action[1] = "stack"

When(cond, kind) == IF cond THEN {kind} ELSE {}

\* the blocksworld preconditions of a well-formed action that fail in state st
ViolatedPreconditions(st, action) ==
    IF action[1] = "pick-up"
    THEN When(action[2] \notin st.clear, "pick-up: block not clear")
         \cup When(st.holding # NoBlock, "pick-up: hand already holding")
         \cup When(action[2] \notin st.on_table, "pick-up: not on table")
    ELSE IF action[1] = "put-down"
    THEN When(st.holding # action[2], "put-down: not holding it")
    ELSE When(st.holding # action[2], "stack: not holding it")
         \cup When(action[3] \notin st.clear, "stack: target not clear")

StepReportsEveryViolation ==
    (b_pc = "loop" /\ b_i' = b_i + 1 /\ WellFormedAction(b_plan_actions[b_i + 1])) =>
        LET step == b_i + 1
            appended == SubSeq(b_errors', Len(b_errors) + 1, Len(b_errors'))
            violated == ViolatedPreconditions(b_state, b_plan_actions[step])
        IN /\ SubSeq(b_errors', 1, Len(b_errors)) = b_errors
           /\ Range(appended) = {Diag(step, kind) : kind \in violated}
           /\ Len(appended) = Cardinality(violated)

PickUpOfCoveredBlockIsInvalid ==
    (/\ b_pc = "returned"
     /\ Len(b_plan_actions) > 0
     /\ \E x \in Blocks : b_plan_actions[1] = <<"pick-up", x>> /\ x \notin b_init_state.clear)
    => /\ ~b_result.is_valid
       /\ \E k \in 1..Len(b_result.errors) :
             b_result.errors[k] = Diag(1, "pick-up: block not clear")

\* C8: a step that is a pick-up, put-down or stack action appends exactly
\* one diagnostic for each of its preconditions that fails in the simulated
\* state, each tagged with the 1-based index of the step, and removes none;
\* the result is the list so built and is invalid unless the list is empty,
\* so a plan that starts by picking up a covered block is invalid with a
\* "not clear" diagnostic of step 1.
C8_EveryViolationReported ==
    /\ [][StepReportsEveryViolation]_vars
    /\ [](b_pc = "returned" =>
            b_result = [is_valid |-> b_errors = <<>>, errors |-> b_errors])
    /\ []PickUpOfCoveredBlockIsInvalid

\* the second step picks up a block that is covered and not on the table
\* while the hand is full: three diagnostics of step 2
C8_Witness ==
    /\ b_pc = "returned"
    /\ Len(b_plan_actions) = 2
    /\ WellFormedAction(b_plan_actions[1])
    /\ b_plan_actions[2] = <<"pick-up", "a">>
    /\ {Diag(2, "pick-up: block not clear"), Diag(2, "pick-up: hand already holding"),
        Diag(2, "pick-up: not on table")} \subseteq Range(b_result.errors)
    /\ ~b_result.is_valid

(***************************************************************************)
(* Properties of verify_plan.                                              *)
(***************************************************************************)
\* C9: verify_plan on an empty action sequence returns invalid with the
\* "empty plan" diagnostic at once: no plan file is ever created and the
\* validator is never run.
C9_EmptyPlanRejectedAtOnce ==
    (v_pc # "off" /\ v_plan_actions = <<>>) =>
        /\ v_pc \in {"start", "returned"}
        /\ v_plan_file = NoFile
        /\ v_runs = 0
        /\ v_pc = "returned" =>
              /\ ~v_result.is_valid
              /\ v_result.errors = <<"Empty plan - no actions to verify">>

C9_Witness == v_pc = "returned" /\ v_plan_actions = <<>> /\ v_result # Unset

(***************************************************************************)
(* Properties of generate_bdi_plan.                                        *)
(***************************************************************************)
InRepairLoop == o_pc \in {"while", "corrective", "val_again"}

\* the history holds one entry per attempt started, numbered in order
HistoryCountsAttempts ==
    o_pc # "off" =>
        /\ Len(o_history) = o_val_repair_attempt
        /\ o_val_repair_attempt <= max_val_repairs
        /\ \A k \in 1..Len(o_history) : o_history[k].attempt = k

\* inside the loop the history changes only when an attempt starts, and
\* then by one entry appended
HistoryAppendOnly ==
    InRepairLoop =>
        /\ Len(o_history') >= Len(o_history)
        /\ SubSeq(o_history', 1, Len(o_history)) = o_history
        /\ Len(o_history') = Len(o_history) + (IF o_pc = "while" /\ o_pc' = "corrective" THEN 1 ELSE 0)
        /\ o_val_repair_attempt' = Len(o_history')

\* the position in the loop: 3 * attempts + the place within an iteration
LoopPosition ==
    3 * o_val_repair_attempt
    + (CASE o_pc = "corrective" -> 0 [] o_pc = "val_again" -> 1 [] OTHER -> 2)

\* every step taken inside the loop moves forward, and the positions are
\* bounded: the loop is left after at most 3 * max_val_repairs + 1 steps
LoopMovesForward ==
    InRepairLoop =>
        /\ LoopPosition <= 3 * max_val_repairs + 2
        /\ InRepairLoop' => LoopPosition' = LoopPosition + 1

\* C10: in one run of the repair loop the cumulative history is append-only
\* and gains exactly one entry per repair attempt started, so its length is
\* the number of attempts; the attempts never exceed max_val_repairs; and
\* whatever the collaborator and the validator return, every step of the
\* loop moves it forward through a bounded range of positions, so the loop
\* is left after at most max_val_repairs attempts.
C10_HistoryAppendOnlyLoopBounded ==
    /\ []HistoryCountsAttempts
    /\ [][HistoryAppendOnly]_vars
    /\ [][LoopMovesForward]_vars

\* the whole budget was used and the history holds the three attempts
C10_Witness ==
    /\ o_pc = "returned"
    /\ o_val_repair_attempt = max_val_repairs
    /\ Len(o_history) = max_val_repairs
    /\ o_history[1] # o_history[2]

(***************************************************************************)
(* PlanVerifier.verify on non-empty graphs.                                *)
(***************************************************************************)
\* G falls into two parts with no edge between them
Splits(G) ==
    \E S \in SUBSET NodeSet(G) :
       /\ S # {} /\ S # NodeSet(G)
       /\ \A e \in EdgeSet(G) : (e[1] \in S) <=> (e[2] \in S)

\* c walks a simple cycle of G: distinct nodes, an edge from each to the
\* next and from the last back to the first
IsCycleWalk(c, G) ==
    /\ Len(c) >= 1
    /\ \A i, j \in 1..Len(c) : c[i] = c[j] => i = j
    /\ \A i \in 1..Len(c) : <<c[i], c[(i % Len(c)) + 1]>> \in EdgeSet(G)

\* the walks of one cycle: c from each of its members on
Rotations(c) == {[i \in 1..Len(c) |-> c[((i + k - 1) % Len(c)) + 1]] : k \in 0..(Len(c) - 1)}

\* the simple cycles of G, each as the set of its walks
SimpleCycles(G) ==
    {Rotations(c) : c \in {w \in SeqsUpTo(NodeSet(G), Cardinality(NodeSet(G))) : IsCycleWalk(w, G)}}

ErrorsOfKind(errs, kind) == SelectSeq(errs, LAMBDA e : e.kind = kind)

\* C11: for a non-empty graph the diagnostics of verify are one connectivity
\* diagnostic iff the graph is not weakly connected, then one cycle
\* diagnostic per simple cycle (self-loops included) that names the members
\* of the cycle in order, and nothing else; the cycle diagnostics are there
\* whether or not the graph is connected; the graph is valid iff there is no
\* diagnostic.
C11_VerifyDiagnostics ==
    (pc = "verify" /\ Len(InputGraph.nodes) > 0) =>
        LET G == InputGraph
            errs == verdict.errors
            cycle_errs == ErrorsOfKind(errs, "cycle")
        IN /\ errs = (IF Splits(G) THEN <<DisconnectedError>> ELSE <<>>) \o cycle_errs
           /\ Len(cycle_errs) = Cardinality(SimpleCycles(G))
           /\ \A cyc \in SimpleCycles(G) : \E i \in 1..Len(cycle_errs) : cycle_errs[i].members \in cyc
           /\ verdict.is_valid <=> errs = <<>>

\* Scenario B: three nodes and the edges of one cycle through them give one
\* diagnostic, which names the three nodes
C11_Witness ==
    /\ pc = "verify"
    /\ plan = [nodes |-> <<"a", "b", VIRTUAL_START>>,
               edges |-> <<(<<"a", "b">>), (<<"b", VIRTUAL_START>>), (<<VIRTUAL_START, "a">>)>>]
    /\ ~verdict.is_valid
    /\ Len(verdict.errors) = 1
    /\ verdict.errors[1].kind = "cycle"
    /\ verdict.errors[1].members \in Rotations(<<"a", "b", VIRTUAL_START>>)

(***************************************************************************)
(* Blocksworld, as the domain defines it.                                  *)
(***************************************************************************)
BlocksworldAction(action) ==
    \/ Len(action) = 2 /\ action[1] \in {"pick-up", "put-down"}
    \/ Len(action) = 3 /\ action[1] \in {"stack", "unstack"}

\* the preconditions of an action hold in state st
PreconditionsHold(st, action) ==
    CASE action[1] = "pick-up" ->
            action[2] \in st.clear /\ action[2] \in st.on_table /\ st.holding = NoBlock
      [] action[1] = "put-down" -> st.holding = action[2]
      [] action[1] = "stack" -> st.holding = action[2] /\ action[3] \in st.clear
      [] action[1] = "unstack" ->
            <<action[2], action[3]>> \in st.on /\ action[2] \in st.clear /\ st.holding = NoBlock

\* the state an action leaves
Effect(st, action) ==
    CASE action[1] = "pick-up" ->
            [st EXCEPT !.on_table = @ \ {action[2]}, !.clear = @ \ {action[2]}, !.holding = action[2]]
      [] action[1] = "put-down" ->
            [st EXCEPT !.on_table = @ \cup {action[2]}, !.clear = @ \cup {action[2]},
                       !.holding = NoBlock]
      [] action[1] = "stack" ->
            [st EXCEPT !.on = @ \cup {<<action[2], action[3]>>},
                       !.clear = (@ \cup {action[2]}) \ {action[3]}, !.holding = NoBlock]
      [] action[1] = "unstack" ->
            [st EXCEPT !.on = @ \ {<<action[2], action[3]>>},
                       !.clear = (@ \cup {action[3]}) \ {action[2]}, !.holding = action[2]]

\* every action from number i on finds its preconditions true in the state
\* the actions before it lead to
RECURSIVE Executable(_, _, _)
Executable(st, actions, i) ==
    \/ i > Len(actions)
    \/ /\ BlocksworldAction(actions[i])
       /\ PreconditionsHold(st, actions[i])
       /\ Executable(Effect(st, actions[i]), actions, i + 1)

UsesUnstack(actions) == \E i \in 1..Len(actions) : actions[i][1] = "unstack"

\* C12: a sequence of pick-up, put-down, stack and unstack actions whose
\* preconditions all hold in the states the preceding actions lead to is
\* reported valid, with no diagnostic.
C12_ExecutablePlanIsValid ==
    (b_pc = "returned" /\ Executable(b_init_state, b_plan_actions, 1)) =>
        b_result.is_valid /\ b_result.errors = <<>>

\* the same for the sequences without an unstack action
C12_ExecutableWithoutUnstack ==
    (b_pc = "returned" /\ Executable(b_init_state, b_plan_actions, 1)
        /\ ~UsesUnstack(b_plan_actions)) =>
        b_result.is_valid /\ b_result.errors = <<>>

\* Scenario C is reported valid
C12_ScenarioC ==
    /\ b_pc = "returned"
    /\ b_init_state = WorldState({"a", "b"}, {}, {"a", "b"}, NoBlock)
    /\ b_plan_actions = <<(<<"pick-up", "a">>), (<<"stack", "a", "b">>)>>
    /\ b_result.is_valid

(***************************************************************************)
(* Anchors of repaired plans.                                              *)
(***************************************************************************)
CountOf(ns, id) == Cardinality({i \in 1..Len(ns) : ns[i] = id})

\* at most one node per anchor id
AnchorsAtMostOnce(p) ==
    CountOf(p.nodes, VIRTUAL_START) <= 1 /\ CountOf(p.nodes, VIRTUAL_END) <= 1

\* repair went through its repair steps on the input plan
RepairStepsRan == pc = "repair" /\ ~result.original_valid /\ Len(plan.nodes) > 0

\* C13: a repair pass on a plan with at most one node per anchor id - a plan
\* that already holds a __START__ node and is disconnected included - leaves
\* a plan with at most one __START__ node and at most one __END__ node: an
\* anchor that is already there is not added a second time.  Stated for the
\* acyclic plans whose ids are distinct and whose edges join listed nodes.
C13_AnchorsNeverDuplicated ==
    (RepairStepsRan /\ AnchorsAtMostOnce(plan) /\ WellFormed(plan) /\ ~HasCycle(InputGraph)) =>
        \A iter \in RepairIters(plan) :
           AnchorsAtMostOnce(repair_steps(plan, to_networkx(plan), iter).plan)

\* the plans repair returns hold each anchor at most once
C13_ReturnedPlanAnchors ==
    (pc = "repair" /\ AnchorsAtMostOnce(plan) /\ result.success) =>
        AnchorsAtMostOnce(result.repaired_plan[1])

\* a disconnected plan that holds an anchor is never repaired
C13_AnchorHoldersFail ==
    (RepairStepsRan /\ VIRTUAL_START \in NodeSet(InputGraph) /\ Splits(InputGraph)) =>
        ~result.success

(***************************************************************************)
(* PDDLSymbolicVerifier.verify_plan: verdicts, plan file, diagnostics.     *)
(***************************************************************************)
\* the failure markers the adapter looks for
FailureMarkers ==
    {"Goal not satisfied", "Plan invalid", "Plan failed", "Bad plan",
     "Error in type-checking", "Bad problem file"}

\* verify_plan has a verdict on the output of the validator
JudgedOutput == v_pc \in {"finally", "returned"} /\ v_run.kind = "output"

\* C14: a plan is reported valid only if the validator's output holds the
\* success marker and none of the failure markers 'Goal not satisfied',
\* 'Plan invalid', 'Plan failed', 'Bad plan', 'Error in type-checking',
\* 'Bad problem file'.
C14_ValidNeedsNoFailureMarker ==
    (JudgedOutput /\ v_result.is_valid) =>
        /\ In(SuccessText, v_run.output)
        /\ \A marker \in FailureMarkers : ~In(marker, v_run.output)

\* valid needs the success marker and rules out two of the failure markers
C14_ValidRulesOutTwoMarkers ==
    (JudgedOutput /\ v_result.is_valid) =>
        /\ In(SuccessText, v_run.output)
        /\ ~In("Goal not satisfied", v_run.output)
        /\ ~In("Plan invalid", v_run.output)

\* C15: when a call of verify_plan that created a plan file ends - with a
\* verdict or with an exception, a failure while the file is written
\* included - the file does not exist any more.
C15_PlanFileRemoved ==
    v_pc \in {"returned", "raised"} => v_plan_file.status # "exists"

\* the file is removed on every path through the try statement
C15_RemovedAfterTry ==
    v_pc = "returned" => v_plan_file.status # "exists"

\* the ways the external tool fails
ToolFailures ==
    {[kind |-> k, output |-> {}] :
        k \in {"TimeoutExpired", "FileNotFoundError", "OSError8", "OSError", "Exception"}}
    \cup {[kind |-> "output", output |-> {}]}

\* C16: verify_plan does not raise once the external tool was started; a
\* verdict is valid iff it has no diagnostic; and a timeout, a missing
\* executable, an incompatible executable, another OS error, another
\* exception and unrecognised output each give an invalid verdict whose
\* diagnostics differ from those of the other five.
C16_ToolFailuresAreDiagnosed ==
    /\ v_pc = "raised" => v_runs = 0 /\ v_run = NotRun
    /\ v_pc \in {"finally", "returned"} /\ v_result # Unset =>
          /\ v_result.is_valid <=> v_result.errors = <<>>
          /\ v_run \in ToolFailures =>
                /\ ~v_result.is_valid
                /\ \A other \in ToolFailures \ {v_run} :
                      v_result.errors # verdict_of(other, v_verbose).errors

\* an executable of the wrong format was reported as such
C16_Witness ==
    /\ v_pc = "returned"
    /\ v_run.kind = "OSError8"
    /\ v_result = [is_valid |-> FALSE,
                   errors |-> <<"VAL executable incompatible with current OS (Exec format error)">>]

(***************************************************************************)
(* generate_bdi_plan: retries.                                             *)
(***************************************************************************)
\* the failures that count as transient: connection, timeout and rate-limit
\* signals
TransientMessages == {"Connection reset by peer"}

\* a call of the generation collaborator
GenerationCall == o_pc = "generate" /\ o_pc' \in {"layer2", "except"}

\* the handler decides on the failure it caught
RetryOnlyTransientWithBackoff ==
    /\ GenerationCall => o_attempt < o_in.max_retries
    /\ (o_pc # "generate" /\ o_pc' = "generate") =>
          /\ o_pc = "except"
          /\ o_last_error \in TransientMessages
          /\ o_attempt' = o_attempt + 1
          /\ o_attempt' < o_in.max_retries
          /\ o_sleeps' = Append(o_sleeps, 2 ^ o_attempt')
    /\ (o_pc = "except" /\ o_pc' # "except"
          /\ (o_last_error \notin TransientMessages \/ o_attempt + 1 >= o_in.max_retries)) =>
          /\ o_pc' = "returned"
          /\ o_result'.plan = EmptyPlan
          /\ ~o_result'.is_valid
          /\ o_result'.metrics.structural.errors = <<o_last_error>>
          /\ o_sleeps' = o_sleeps

\* the k-th retry is attempt k + 1 and was preceded by waits of 2, 4, .., 2^k
BackoffDoubles ==
    o_pc # "off" =>
        /\ Len(o_sleeps) = o_attempt
        /\ \A k \in 1..Len(o_sleeps) : o_sleeps[k] = 2 ^ k
        /\ o_attempt <= o_in.max_retries

\* C17: the generation collaborator is called again only after a failure
\* classified as transient, at most max_retries times in all, after a wait
\* of 2^k seconds before the k-th retry; a failure that is not transient, or
\* a transient one on the last allowed attempt, returns at once the empty
\* plan, validity false and the captured error, without another call.
C17_RetryOnlyTransient ==
    /\ []BackoffDoubles
    /\ [][RetryOnlyTransientWithBackoff]_vars

\* two retries, after waits of 2 and 4 seconds, and a transient failure on
\* the last allowed attempt
C17_Witness ==
    /\ o_pc = "returned"
    /\ o_in.max_retries = 3
    /\ o_attempt = 2
    /\ o_sleeps = <<2, 4>>
    /\ o_last_error \in TransientMessages
    /\ o_result.plan = EmptyPlan
    /\ ~o_result.is_valid

(***************************************************************************)
(* generate_bdi_plan: the end of the repair loop.                          *)
(***************************************************************************)
\* a call of the corrective collaborator / of the external validator
CorrectiveCall == o_pc = "corrective" /\ o_pc' # "corrective"
ValidatorCall == o_pc \in {"val", "val_again"} /\ o_pc' # o_pc

LoopStopsAtOnce ==
    \* validation succeeded, or the budget is used up: the loop is left
    /\ (o_pc = "while" /\ o_pc' # "while"
          /\ (o_symbolic_valid \/ o_val_repair_attempt >= max_val_repairs)) =>
          /\ o_pc' = "layer3"
          /\ <<o_plan', o_symbolic_valid', o_val_repair_attempt', o_history'>>
               = <<o_plan, o_symbolic_valid, o_val_repair_attempt, o_history>>
    \* another attempt is started only without a valid verdict and within
    \* the budget
    /\ (o_pc = "while" /\ o_pc' = "corrective") =>
          ~o_symbolic_valid /\ o_val_repair_attempt < max_val_repairs
    \* the validator runs on a corrective plan only if the plan passed the
    \* structural check; otherwise the loop is left
    /\ CorrectiveCall =>
          \/ o_pc' = "val_again" /\ verify(to_networkx(o_plan')).is_valid
          \/ o_pc' = "layer3"
    \* once the loop is left, the attempt makes no call of the corrective
    \* collaborator or of the validator
    /\ o_pc = "layer3" => o_pc' \in {"layer3", "returned", "except"}
    /\ (CorrectiveCall \/ ValidatorCall) => o_pc \in {"val", "corrective", "val_again"}

\* C18: the repair loop stops as soon as the external validation of the
\* current plan has succeeded, or the corrective plan has failed the
\* structural check (the validator is not run on it), or the attempt budget
\* is used up; no corrective-generation call and no validator call follows.
C18_LoopStopsAtOnce == [][LoopStopsAtOnce]_vars

\* the loop was left after the first corrective plan passed the validator
C18_Witness ==
    /\ o_pc = "layer3"
    /\ o_symbolic_valid
    /\ o_val_repair_attempt = 1
    /\ Len(o_history) = 1
    /\ o_metrics.val_repair.success

(***************************************************************************)
(* generate_bdi_plan: the overall verdict and the layers that are skipped. *)
(***************************************************************************)
\* the returned validity is the conjunction of the three reported verdicts
OverallIsConjunction ==
    o_pc = "returned" =>
        /\ o_result.is_valid = (/\ o_result.metrics.structural.valid
                                /\ o_result.metrics.symbolic.valid
                                /\ o_result.metrics.physics.valid)
        /\ o_result.is_valid = o_result.metrics.overall_valid

SkipMarkers ==
    {"Skipped - Structural failure", "Skipped - Missing PDDL files",
     "Skipped - No physics validator for this domain"}

ReportedSkipped(layer) == \E i \in 1..Len(layer.errors) : layer.errors[i] \in SkipMarkers

PathsSupplied == Truthy(o_in.pddl_problem_path) /\ Truthy(o_in.pddl_domain_path)

\* the try block returns its result
NormalReturn == o_pc = "layer3" /\ o_pc' = "returned"

\* the external validator is not run without the two paths, and the result
\* reports the layer as skipped
SymbolicSkipReported ==
    /\ (ValidatorCall \/ CorrectiveCall) => PathsSupplied
    /\ (NormalReturn /\ ~PathsSupplied) => ReportedSkipped(o_result'.metrics.symbolic)

\* without an initial state the result reports the precondition simulator
\* as skipped
PhysicsSkipReported ==
    (NormalReturn /\ ~o_in.init_state) => ReportedSkipped(o_result'.metrics.physics)

\* C19: the overall verdict returned equals the conjunction of the
\* structural, external-validator and precondition-simulator verdicts that
\* the metrics report; and a layer whose inputs were not supplied (no domain
\* or problem path, no initial state) is not executed and is reported as
\* skipped.
C19_ConjunctionAndSkips ==
    /\ []OverallIsConjunction
    /\ [][SymbolicSkipReported]_vars
    /\ [][PhysicsSkipReported]_vars

\* the verdicts, and the external-validator layer, are as claimed
C19_ConjunctionAndSymbolicSkip ==
    /\ []OverallIsConjunction
    /\ [][SymbolicSkipReported]_vars

(***************************************************************************)
(* generate_bdi_plan: every call returns a result.                         *)
(***************************************************************************)
\* the places of generate_bdi_plan; none of them is left by an exception
\* that reaches the caller
OrchStages ==
    {"generate", "except", "layer2", "val", "while", "corrective", "val_again", "layer3",
     "returned"}

\* the diagnostics of a returned result
Diagnostics(metrics) ==
    metrics.structural.errors \o metrics.symbolic.errors \o metrics.physics.errors

\* what is returned is a (plan, validity, metrics) triple; an invalid one
\* has a diagnostic
ReturnsTriple ==
    /\ o_pc \in OrchStages
    /\ o_pc = "returned" <=> o_result # Unset
    /\ o_pc = "returned" =>
          /\ DOMAIN o_result = {"plan", "is_valid", "metrics"}
          /\ o_result.is_valid \in BOOLEAN
          /\ ~o_result.is_valid => Diagnostics(o_result.metrics) # <<>>
          /\ o_in.max_retries = 0 =>
                /\ o_result.plan = EmptyPlan /\ ~o_result.is_valid
                /\ o_result.metrics.structural.errors = <<"Max retries exceeded">>

\* an exception becomes a diagnostic of the result
FailureIsRecorded ==
    \* caught by the handler of the retry loop
    /\ (o_pc = "except" /\ o_pc' = "returned") =>
          /\ o_result'.plan = EmptyPlan /\ ~o_result'.is_valid
          /\ o_result'.metrics.structural.errors = <<o_last_error>>
    \* raised by the first call of the validator
    /\ (o_pc = "val" /\ o_pc' = "layer3") =>
          ~o_symbolic_valid' /\ o_symbolic_errors' = <<"Symbolic verification error">>
    \* raised inside the repair loop: the attempt stays recorded as failed
    /\ (o_pc \in {"corrective", "val_again"} /\ o_pc' = "layer3") =>
          /\ ~o_symbolic_valid' /\ o_symbolic_errors' # <<>>
          /\ ~o_metrics'.val_repair.history[Len(o_metrics'.val_repair.history)].repaired
    \* the result reports the verdict and the diagnostics of the validator layer
    /\ NormalReturn =>
          /\ o_result'.plan = o_plan
          /\ o_result'.metrics.symbolic = [valid |-> o_symbolic_valid, errors |-> o_symbolic_errors]

\* how far a call has come: the attempt, and the place within the attempt
OrchPosition ==
    20 * o_attempt
    + (CASE o_pc = "generate" -> 0
         [] o_pc = "layer2" -> 1
         [] o_pc = "val" -> 2
         [] InRepairLoop -> 3 + LoopPosition
         [] o_pc = "layer3" -> 18
         [] OTHER -> 19)

\* every step before the return moves the call forward
MovesForward ==
    (o_pc # "returned" /\ o_pc' # "returned") => OrchPosition' > OrchPosition

SimulatorCall ==
    /\ o_pc = "layer3" /\ o_pc' # "layer3"
    /\ o_in.init_state /\ o_struct_valid /\ o_in.blocksworld

PassedStructuralVerification(p) == verify(to_networkx(p)).is_valid

StructuralBeforeSemantic ==
    /\ (ValidatorCall \/ CorrectiveCall \/ SimulatorCall) =>
          o_struct_valid /\ PassedStructuralVerification(o_plan)
    \* a corrective plan is validated next only when it passed the check
    /\ (CorrectiveCall /\ o_pc' = "val_again") => PassedStructuralVerification(o_plan')

\* C21: within one run of generate_bdi_plan the external validator, the
\* corrective-generation collaborator and the precondition simulator are
\* invoked only for a plan that has passed structural verification, the
\* plans returned by a corrective step included.
C21_StructuralBeforeSemantic == [][StructuralBeforeSemantic]_vars

\* a corrective plan replaced the generated plan, was validated and then
\* simulated
C21_Witness ==
    /\ o_pc = "returned"
    /\ o_val_repair_attempt = 2
    /\ o_result.metrics.val_repair.success
    /\ Len(o_result.metrics.physics.errors) = 1
    /\ o_result.plan = o_plan
    /\ Len(o_plan.nodes) = 2

(***************************************************************************)
(* generate_bdi_plan: the repair budget is used up.                        *)
(***************************************************************************)

\* the while condition ends the loop although the last verdict is invalid
BudgetExhausted == o_pc = "while" /\ o_pc' # "while" /\ ~o_symbolic_valid /\ o_pc' # "corrective"

\* the loop is left with the plan of the last corrective attempt and the
\* diagnostics of the validator run on the actions of that plan
ExhaustedLoopKeepsLastAttempt ==
    /\ (o_pc = "while" /\ ~o_symbolic_valid) =>
          (o_pc' = "corrective") = (o_val_repair_attempt < max_val_repairs)
    /\ BudgetExhausted =>
          /\ o_pc' = "layer3"
          /\ o_val_repair_attempt = max_val_repairs
          /\ Len(o_history) = max_val_repairs
          /\ o_pddl_actions = bdi_to_pddl_actions(o_plan)
          /\ <<o_plan', o_symbolic_valid', o_symbolic_errors', o_val_repair_attempt'>>
               = <<o_plan, o_symbolic_valid, o_symbolic_errors, o_val_repair_attempt>>
    \* the validator run inside the loop judges the corrective plan, which
    \* it leaves as it is
    /\ (o_pc = "val_again" /\ o_pc' = "while") =>
          /\ o_plan' = o_plan
          /\ o_pddl_actions' = bdi_to_pddl_actions(o_plan)
          /\ [is_valid |-> o_symbolic_valid', errors |-> o_symbolic_errors'] \in ValVerdicts

\* the return statement hands back the current plan and the diagnostics of
\* the validator; an invalid validator verdict makes the result invalid
ReturnsLastAttempt ==
    NormalReturn =>
        /\ o_result'.plan = o_plan
        /\ o_result'.metrics.symbolic = [valid |-> o_symbolic_valid, errors |-> o_symbolic_errors]
        /\ ~o_symbolic_valid => ~o_result'.is_valid

\* after the loop neither the collaborator nor the validator is called
NoAttemptAfterLoop ==
    /\ o_pc = "layer3" => o_pc' \in {"layer3", "returned", "except"}
    /\ CorrectiveCall => o_val_repair_attempt <= max_val_repairs

SimulatedStep == b_pc = "loop" /\ b_i' = b_i + 1

\* the step leaves the state the effects of its action lead to, with or
\* without diagnostics
EffectsApplied(actions) ==
    (SimulatedStep /\ b_plan_actions[b_i + 1] \in actions) =>
        b_state' = Effect(b_state, b_plan_actions[b_i + 1])

\* no step ends the simulation: the result is built after the last action
WholeSequenceSimulated ==
    /\ b_pc = "loop" => b_i <= Len(b_plan_actions)
    /\ b_pc = "returned" => b_i = Len(b_plan_actions) /\ b_result.errors = b_errors

NonDecreasingSteps ==
    \A k \in 1..(Len(b_errors) - 1) : b_errors[k].step <= b_errors[k + 1].step

\* [pick-up a, pick-up a] with a clear and on the table
StatePersistence ==
    (/\ b_pc = "returned"
     /\ b_plan_actions = <<(<<"pick-up", "a">>), (<<"pick-up", "a">>)>>
     /\ "a" \in b_init_state.clear /\ "a" \in b_init_state.on_table
     /\ b_init_state.holding = NoBlock)
    => /\ ~b_result.is_valid
       /\ Len(b_result.errors) > 0
       /\ b_result.errors[1].step = 2

\* C23: validate_plan applies the effects of every parsable action whether
\* or not its preconditions were violated and always simulates the whole
\* sequence; the diagnostics are in non-decreasing step order, and for
\* [pick-up a, pick-up a] from a clear block a on the table the first
\* diagnostic is tagged step 2.
C23_EffectsAlwaysApplied ==
    /\ [][EffectsApplied({action \in ActionStrings : BlocksworldAction(action)})]_vars
    /\ []WholeSequenceSimulated
    /\ []NonDecreasingSteps
    /\ []StatePersistence

\* the same for the pick-up, put-down and stack actions
C23_EffectsWithoutUnstack ==
    /\ [][EffectsApplied({action \in ActionStrings : WellFormedAction(action)})]_vars
    /\ []WholeSequenceSimulated
    /\ []NonDecreasingSteps
    /\ []StatePersistence

\* the second pick-up is judged in the state the first one left
C23_StatePersistenceReached ==
    /\ b_pc = "returned"
    /\ b_plan_actions = <<(<<"pick-up", "a">>), (<<"pick-up", "a">>)>>
    /\ b_init_state = WorldState({"a", "b"}, {}, {"a", "b"}, NoBlock)
    /\ b_state.holding = "a"
    /\ Len(b_result.errors) = 3
    /\ b_result.errors[1] = Diag(2, "pick-up: block not clear")

(***************************************************************************)
(* validate_plan: actions whose block arguments are missing.               *)
(***************************************************************************)
\* a pick-up or put-down without a block, a stack or unstack with fewer
\* than two blocks
MissingArguments(action) ==
    \/ action[1] \in {"pick-up", "put-down"} /\ Len(action) < 2
    \/ action[1] \in {"stack", "unstack"} /\ Len(action) < 3

\* the step records the parse diagnostic of its step and nothing else, and
\* leaves the state as it was
ParseFailureSkipsStep(actions) ==
    (SimulatedStep /\ b_plan_actions[b_i + 1] \in actions) =>
        /\ b_errors' = Append(b_errors, Diag(b_i + 1, "parse"))
        /\ b_state' = b_state

\* C24: an action whose block arguments cannot be parsed records a parse
\* diagnostic tagged with its step, and the world state after the step is
\* the state before it: no effect is applied and no block name is guessed.
C24_UnparsableActionSkipped ==
    [][ParseFailureSkipsStep({action \in ActionStrings : MissingArguments(action)})]_vars

\* the same for the stack and unstack actions with fewer than two blocks
C24_UnparsableStackSkipped ==
    [][ParseFailureSkipsStep({action \in ActionStrings :
                                 MissingArguments(action) /\ action[1] \in {"stack", "unstack"}})]_vars

\* (stack a) is reported as a parse failure of step 1
C24_StackParseFailureReached ==
    /\ b_pc = "returned"
    /\ b_plan_actions = <<(<<"stack", "a">>)>>
    /\ b_result.errors = <<Diag(1, "parse")>>
    /\ b_state = b_init_state

(***************************************************************************)
(* validate_plan: unstack.                                                 *)
(***************************************************************************)
\* the diagnostics the step appended
AppendedErrors == SubSeq(b_errors', Len(b_errors) + 1, Len(b_errors'))

FirstAppendedIs(kind) ==
    /\ Len(AppendedErrors) > 0
    /\ AppendedErrors[1] = Diag(b_i + 1, kind)

UnstackJudgedAsUnstack ==
    \A x, y \in Blocks :
        (SimulatedStep /\ b_plan_actions[b_i + 1] = <<"unstack", x, y>>) =>
            /\ x \notin b_state.clear => FirstAppendedIs("unstack: not clear")
            /\ (x \in b_state.clear /\ b_state.holding # NoBlock) =>
                  FirstAppendedIs("unstack: hand not empty")
            /\ b_state'.holding = x
            /\ x # y => y \in b_state'.clear

\* C25: an unstack action is judged by the preconditions of unstack and
\* changes the state by the effects of unstack: a block that is not clear
\* gives a "not clear" diagnostic first, a full hand gives a "hand not
\* empty" diagnostic first, and after an unstack of X from Y the hand holds
\* X and Y is clear.
C25_UnstackJudgedAsUnstack == [][UnstackJudgedAsUnstack]_vars

(***************************************************************************)
(* PlanRepairer.repair only adds to the plan.                              *)
(***************************************************************************)
IsPrefix(s, t) == Len(s) <= Len(t) /\ SubSeq(t, 1, Len(s)) = s

\* the node list and the edge list of the input start the repaired lists
RepairOnlyAppends ==
    (pc = "repair" /\ result.success) =>
        /\ IsPrefix(plan.nodes, result.repaired_plan[1].nodes)
        /\ IsPrefix(plan.edges, result.repaired_plan[1].edges)

\* repair and repair_and_verify leave the plan they are given as it is
InputPlanUntouched == (pc = "start" /\ pc' \in {"repair", "repair_and_verify"}) => plan' = plan

\* C26: in every plan a successful repair returns, the original node list
\* and the original edge list are a prefix, unchanged and in their order, of
\* the repaired lists, and the input plan itself is not modified.
C26_RepairMonotonic == []RepairOnlyAppends /\ [][InputPlanUntouched]_vars

\* a plan with edges was repaired: nodes and edges were added
C26_Witness ==
    /\ pc = "repair"
    /\ result.success
    /\ ~result.original_valid
    /\ Len(plan.edges) > 0
    /\ Len(result.repaired_plan[1].nodes) > Len(plan.nodes)
    /\ Len(result.repaired_plan[1].edges) > Len(plan.edges)

\* a disconnected plan was repaired: both anchors were added
C26_BothAnchorsAdded ==
    /\ pc = "repair"
    /\ result.success
    /\ Len(result.repaired_plan[1].nodes) = Len(plan.nodes) + 2

(***************************************************************************)
(* run_batch_evaluation: evaluations in progress at the same time.         *)
(***************************************************************************)
Min(x, y) == IF x < y THEN x ELSE y

\* the calls of evaluate_single_instance that have not returned
EvaluationsInProgress == t_evaluating + t_validating

EvaluationsBounded ==
    (t_main # "off" /\ t_in.parallel) =>
        /\ EvaluationsInProgress <= Min(t_in.max_workers, 15)
        /\ t_validating <= Min(t_in.max_workers, 15)

\* C27: with parallel = true, under every interleaving of the worker
\* threads at most min(max_workers, 15) instance evaluations, and so at most
\* that many runs of the external validator, are in progress at a time.
C27_EvaluationsBounded == []EvaluationsBounded

\* sixteen worker threads: fifteen evaluate, each inside the validator, and
\* the sixteenth waits for a permit
C27_Witness ==
    /\ t_main = "collect"
    /\ t_in.parallel
    /\ t_in.max_workers > 15
    /\ t_threads = t_in.max_workers
    /\ t_validating = 15
    /\ t_acquiring = 1
    /\ api_semaphore = 0

\* two worker threads for three instances: two evaluate, one task waits
C27_PoolBinds ==
    /\ t_in.parallel
    /\ t_in.max_workers = 2
    /\ t_in.instances = 3
    /\ t_evaluating = 2
    /\ t_queue = 1
    /\ api_semaphore = 13

(***************************************************************************)
(* validate_plan: the simulated state while no diagnostic is recorded.     *)
(***************************************************************************)
\* the held block is not on the table, not clear, and neither on nor under
\* another block
HeldBlockFree(st) ==
    st.holding # NoBlock =>
        /\ st.holding \notin st.on_table
        /\ st.holding \notin st.clear
        /\ \A y \in Blocks : <<st.holding, y>> \notin st.on /\ <<y, st.holding>> \notin st.on

\* some step was simulated and no diagnostic is recorded so far
NoDiagnosticSoFar == b_pc # "off" /\ b_i >= 1 /\ b_errors = <<>>

\* C28: starting from a consistent blocksworld state, as long as no
\* diagnostic is recorded the simulated state stays consistent after every
\* step, and the held block is not on the table, not clear and neither on
\* nor under another block.
C28_ConsistencyPreserved ==
    (NoDiagnosticSoFar /\ ConsistentState(b_init_state)) =>
        ConsistentState(b_state) /\ HeldBlockFree(b_state)

\* C28, for the initial states in which, in addition, no block rests on the
\* held block
C28_ConsistencyPreservedFreeHeldBlock ==
    (NoDiagnosticSoFar /\ ConsistentState(b_init_state) /\ HeldBlockFree(b_init_state)) =>
        ConsistentState(b_state) /\ HeldBlockFree(b_state)

\* the held block is put down and the other one picked up, no diagnostic
C28_Witness ==
    /\ b_pc = "returned"
    /\ Len(b_plan_actions) = 2
    /\ b_result.is_valid
    /\ HeldBlockFree(b_init_state)
    /\ b_init_state.holding = "a"
    /\ b_state.holding = "b"
    /\ b_state.on_table = {"a"}

(***************************************************************************)
(* verify_full and generate_bdi_plan on the same layer outcomes.           *)
(***************************************************************************)
\* verify_full was called on the returned plan
BothReturned == o_pc = "returned" /\ f_result # Unset

\* the layers that ran in both calls gave the same verdicts
SameLayerOutcomes ==
    /\ f_result.layers.structural.valid = o_result.metrics.structural.valid
    /\ (PathsSupplied /\ f_result.layers.structural.valid) =>
          f_result.layers.symbolic.valid = o_result.metrics.symbolic.valid
    /\ (o_in.init_state /\ o_in.blocksworld /\ f_result.layers.structural.valid) =>
          f_result.layers.physics.valid = o_result.metrics.physics.valid

\* C29: for the same layer outcomes IntegratedVerifier.verify_full and
\* generate_bdi_plan give the same overall verdict, also when the
\* external-validator layer is skipped because the domain or the problem
\* file was not supplied.
C29_SameOverallVerdict ==
    (BothReturned /\ SameLayerOutcomes) => f_result.overall_valid = o_result.is_valid

\* the same when a problem file path is given (it may be empty)
C29_SameVerdictWithProblemPath ==
    (BothReturned /\ SameLayerOutcomes /\ o_in.pddl_problem_path # None) =>
        f_result.overall_valid = o_result.is_valid

\* both calls ran the three layers and agree
C29_AllLayersCompared ==
    /\ BothReturned /\ SameLayerOutcomes
    /\ PathsSupplied /\ o_in.init_state /\ o_in.blocksworld
    /\ f_result.overall_valid /\ o_result.is_valid

(***************************************************************************)
(* generate_bdi_plan: the structural metrics and the returned plan.        *)
(***************************************************************************)
\* the structural verdict and the counts of the metrics are those of plan p
MetricsDescribe(metrics, p) ==
    /\ metrics.structural.valid = verify(to_networkx(p)).is_valid
    /\ metrics.num_nodes = Len(p.nodes)
    /\ metrics.num_edges = Len(p.edges)

ReturnedMetricsDescribePlan ==
    NormalReturn => MetricsDescribe(o_result'.metrics, o_result'.plan)

\* C30: the structural verdict and the node and edge counts of the returned
\* metrics describe the plan that is returned, also when the repair loop
\* has replaced the plan by a corrective plan or ran out of budget.  Stated
\* for the results of the return statement of the try block.
C30_MetricsDescribeReturnedPlan == [][ReturnedMetricsDescribePlan]_vars

\* the same for the calls in which no corrective plan replaced the plan
C30_MetricsWithoutCorrectivePlan ==
    [][(NormalReturn /\ o_val_repair_attempt = 0) =>
          MetricsDescribe(o_result'.metrics, o_result'.plan)]_vars

\* the same for the corrective plans the validator accepted
C30_MetricsOfAcceptedCorrectivePlan ==
    [][(NormalReturn /\ o_val_repair_attempt > 0 /\ o_symbolic_valid) =>
          MetricsDescribe(o_result'.metrics, o_result'.plan)]_vars

\* every outcome, the results of the exception handler included
C30_EveryOutcome ==
    o_pc = "returned" => MetricsDescribe(o_result.metrics, o_result.plan)

====
